---- MODULE Spec2Model ----
(***************************************************************************)
(* Connection establishment between two CurrentCircle devices: the Connect *)
(* module (js/connect.js), the WebRTC module it drives (js/webrtc.js) and  *)
(* the connection commit of the App module (js/ui.js).                     *)
(*                                                                         *)
(* JavaScript runs every handler to completion; an async function gives up *)
(* control only at an await.  The variable sync holds the rest of the      *)
(* handler that is running, so that each assignment of connectionStage is  *)
(* a state of the model while no other event interleaves with it; tasks    *)
(* holds the continuations that wait behind an await.                      *)
(***************************************************************************)
EXTENDS Integers, Sequences, FiniteSets, TLC

\* ---------------------------------------------------------------- bounds
MaxUser == 3      \* user actions: generateQRCode, startScanner, confirmation
MaxTimers == 4    \* 500 ms timers of handleDataExchange that fire
MaxFail == 1      \* failures of the camera, the transport and the store

\* a device creates one peer connection in Connect.init and at most one
\* per user action
MaxPC == MaxUser + 1

\* times the clock may jump ahead by more than a year
MaxTicks == 1

\* --------------------------------------------------------------- devices
Devices == {"A", "B"}

Other(d) == IF d = "A" THEN "B" ELSE "A"

\* state.identity.privateKey of each installation: the random string
\* Crypto.generateKeyPair drew
PrivateKey(d) == IF d = "A" THEN "skA" ELSE "skB"

\* CryptoJS.SHA256(x).toString(): a string that is not x
SHA256(x) == "sha256:" \o x

\* Crypto.generateKeyPair for the random string it draws
generateKeyPair(random) == [publicKey |-> SHA256(random), privateKey |-> random]

\* state.profile of each installation (App.getState().profile), with the
\* did and the keys of state.profile.identity
Profile(d) ==
    IF d = "A"
    THEN [id |-> "uuid-a", firstName |-> "Alice", lastName |-> "Ames", nickname |-> "",
          bio |-> "bio of A", profilePicture |-> "picture of A",
          did |-> "did:cc:A",
          publicKey |-> generateKeyPair(PrivateKey(d)).publicKey,
          privateKey |-> generateKeyPair(PrivateKey(d)).privateKey]
    ELSE [id |-> "uuid-b", firstName |-> "Bob", lastName |-> "Burns", nickname |-> "bob",
          bio |-> "", profilePicture |-> "",
          did |-> "did:cc:B",
          publicKey |-> generateKeyPair(PrivateKey(d)).publicKey,
          privateKey |-> generateKeyPair(PrivateKey(d)).privateKey]

\* a value JavaScript takes for true in `a || b` and `if (a)`: a field that
\* is absent, null or the empty string is not
Truthy(v) == v \notin {"", "null"}

\* a || b
Or(a, b) == IF Truthy(a) THEN a ELSE b

\* Crypto.encryptMessage: AES under the passphrase key; the ciphertext is
\* named by the passphrase and the plaintext it was made from
encryptMessage(message, key) == [type |-> "aes", key |-> key, text |-> message]

\* a plaintext
Text(body) == [type |-> "text", body |-> body]

\* ---------------------------------------------------------------- stages
STAGES ==
    [INIT |-> "init", OFFER_CREATED |-> "offer_created",
     SCANNING |-> "scanning", OFFER_SCANNED |-> "offer_scanned",
     ANSWER_CREATED |-> "answer_created", ANSWER_SCANNED |-> "answer_scanned",
     CONNECTED |-> "connected", EXCHANGING |-> "exchanging",
     COMPLETE |-> "complete", FAILED |-> "failed"]

\* ------------------------------------------------------- values and null
\* null / undefined of the source; every payload is a record with a type
NULL == [type |-> "null"]

\* a session description {type, sdp}: the sdp is named by the peer
\* connection that produced it
Description(t, d, n) == [type |-> t, dev |-> d, pc |-> n]

\* Crypto.decryptMessage: AES under the passphrase key gives the plaintext
\* back for the passphrase of the encryption; for another passphrase, or for
\* something that is no ciphertext, the conversion to UTF-8 throws into the
\* catch block, which returns null
decryptMessage(encryptedMessage, key) ==
    IF encryptedMessage.type = "aes" /\ encryptedMessage.key = key
    THEN encryptedMessage.text
    ELSE NULL

\* Crypto.createOnboardingQRData: the parameters of the onboarding URL
createOnboardingQRData(profile) ==
    [type |-> "onboarding", did |-> profile.did, pubKey |-> profile.publicKey,
     name |-> profile.firstName \o " " \o profile.lastName,
     referrer |-> profile.id]

\* connectionData as built by initializeConnectionOffer
OfferData(d) ==
    [type |-> "connection", did |-> Profile(d).did,
     publicKey |-> Profile(d).publicKey,
     firstName |-> Profile(d).firstName, lastName |-> Profile(d).lastName,
     nickname |-> Or(Profile(d).nickname, ""),
     bio |-> Or(Profile(d).bio, ""), profilePicture |-> "",
     webrtc |-> NULL]

\* codes a scanner can be shown that no modelled device displays
ForeignCodes ==
    { [type |-> "garbage"],
      [type |-> "onboarding_url"],
      [type |-> "unsupported"],
      [type |-> "connection_answer", did |-> "did:cc:X",
       webrtc |-> Description("answer", "X", 1)] }

\* an RTCPeerConnection with the data channel end it carries; opened and
\* completeSent record that the channel end was open and that a `complete`
\* was handed to it
NewPC(initiator) ==
    [initiator |-> initiator, local |-> NULL, remote |-> NULL,
     closed |-> FALSE, conn |-> "new",
     chan |-> IF initiator THEN "connecting" ELSE "none",
     inbox |-> <<>>, opened |-> FALSE, completeSent |-> FALSE]

\* the messages and relays an installation holds at the start: messages it
\* has sent and relays it holds, for the peer, for itself and for a third
\* party.  The ciphertext of r1 is one the private key of the peer opens,
\* the others are made as createMessage makes them, under a public key.
StateMessages(d) ==
    [sent |->
        << [id |-> "s1", recipientId |-> Profile(Other(d)).did,
           senderId |-> Profile(d).did, content |-> Text("for the peer"),
           encrypted |-> encryptMessage(Text("for the peer"),
                                        Profile(Other(d)).publicKey),
           status |-> "sent", isRelay |-> FALSE],
          [id |-> "s2", recipientId |-> "did:cc:X",
           senderId |-> Profile(d).did, content |-> Text("to X"),
           encrypted |-> encryptMessage(Text("to X"), "pkX"),
           status |-> "sent", isRelay |-> TRUE] >>,
     relays |->
        << [id |-> "r1", messageId |-> "s0",
           targetRecipientId |-> Profile(Other(d)).did,
           encryptedContent |->
               encryptMessage(Text("hello"), PrivateKey(Other(d))),
           status |-> "pending"],
          [id |-> "r2", messageId |-> "s9",
           targetRecipientId |-> Profile(d).did,
           encryptedContent |->
               encryptMessage(Text("to me"), Profile(d).publicKey),
           status |-> "pending"],
          [id |-> "r3", messageId |-> "s2",
           targetRecipientId |-> "did:cc:X",
           encryptedContent |-> encryptMessage(Text("to X"), "pkX"),
           status |-> "pending"] >>]

\* the elements of a list
Range(list) == { list[k] : k \in 1..Len(list) }

NoSync == [dev |-> "none", label |-> "none"]

NoLast == [op |-> "none", dev |-> "none", arg |-> "none"]

VARIABLES
    connectionStage,    \* Connect: connectionStage
    connectionData,     \* Connect: connectionData
    localDescription,   \* Connect: localDescription
    remoteDescription,  \* Connect: remoteDescription
    answerQrCode,       \* Connect: answerQrCode
    scannerActive,      \* Connect: scannerActive
    qrcode,             \* the code rendered in the #qrcode element
    modal,              \* #confirmation-modal: data attribute and visibility
    peerConnection,     \* WebRTC: peerConnection (index into pcs[d], 0 = null)
    dataChannel,        \* WebRTC: dataChannel (index of the pc carrying it)
    isInitiator,        \* WebRTC: isInitiator
    connectionState,    \* WebRTC: connectionState
    pcs,                \* every RTCPeerConnection a device has created
    tasks,              \* continuations waiting behind an await
    runs,               \* handleDataExchange runs waiting on a timer, in the
                        \* order the timers fire: number of sends done
    sync,               \* rest of the handler that is running
    connStore,          \* DB: connections object store
    stateConnections,   \* App: state.connections
    idCtr,              \* connection ids handed out (uuid.v4)
    msgStore,           \* DB: messages object store
    received,           \* App: state.messages.received
    now,                \* the clock new Date() reads
    sent,               \* App: state.messages.sent
    stateRelays,        \* App: state.messages.relays
    relayStore,         \* DB: relays object store
    profileStore,       \* DB: profile object store
    stateProfile,       \* App: state.profile
    stateIdentity,      \* App: state.identity
    inbound,            \* items of the `messages` and `relays` messages that
                        \* handleDataReceived was called with
    booted,             \* Connect.init has run
    used,               \* user actions, timers and failures so far
    session,            \* "none", "open" once a channel is open at both ends,
                        \* "spoiled" by a failure or by a user action after that
    last                \* the handler entered last, with its input or outcome

\* Connect apart from the stage
dataVars ==
    <<connectionData, localDescription, remoteDescription, answerQrCode>>

uiVars == <<scannerActive, qrcode, modal>>

rtcVars == <<peerConnection, dataChannel, isInitiator>>

authorVars == <<sent, stateRelays, relayStore>>

profileVars == <<profileStore, stateProfile, stateIdentity>>

\* the Connect variables, which no operation of App touches
connectVars ==
    <<connectionStage, dataVars, uiVars, rtcVars, connectionState, pcs, runs,
      sync>>

appVars ==
    <<connStore, stateConnections, idCtr, msgStore, received, now, sent,
      stateRelays, relayStore, profileVars, inbound>>

vars ==
    <<connectionStage, connectionData, localDescription, remoteDescription,
      answerQrCode, scannerActive, qrcode, modal, peerConnection,
      dataChannel, isInitiator, connectionState, pcs, tasks, runs, sync,
      connStore, stateConnections, idCtr, msgStore, received, now, sent,
      stateRelays, relayStore, profileStore, stateProfile, stateIdentity,
      inbound, booted, used, session, last>>

\* the state of a page apart from the profile
InitRest ==
    /\ connectionStage = [d \in Devices |-> STAGES.INIT]
    /\ connectionData = [d \in Devices |-> NULL]
    /\ localDescription = [d \in Devices |-> NULL]
    /\ remoteDescription = [d \in Devices |-> NULL]
    /\ answerQrCode = [d \in Devices |-> NULL]
    /\ scannerActive = [d \in Devices |-> FALSE]
    /\ qrcode = [d \in Devices |-> NULL]
    /\ modal = [d \in Devices |-> [data |-> NULL, active |-> FALSE]]
    /\ peerConnection = [d \in Devices |-> 0]
    /\ dataChannel = [d \in Devices |-> 0]
    /\ isInitiator = [d \in Devices |-> FALSE]
    /\ connectionState = [d \in Devices |-> "disconnected"]
    /\ pcs = [d \in Devices |-> <<>>]
    /\ tasks = [d \in Devices |-> <<>>]
    /\ runs = [d \in Devices |-> <<>>]
    /\ sync = NoSync
    /\ connStore = [d \in Devices |-> {}]
    /\ stateConnections = [d \in Devices |-> <<>>]
    /\ idCtr = [d \in Devices |-> 0]
    /\ msgStore = [d \in Devices |-> Range(StateMessages(d).sent)]
    /\ received = [d \in Devices |-> <<>>]
    /\ now = 0
    /\ sent = [d \in Devices |-> StateMessages(d).sent]
    /\ stateRelays = [d \in Devices |-> StateMessages(d).relays]
    /\ relayStore = [d \in Devices |-> Range(StateMessages(d).relays)]
    /\ inbound = [d \in Devices |-> {}]
    /\ booted = [d \in Devices |-> FALSE]
    /\ used = [user |-> 0, timer |-> 0, fail |-> 0, tick |-> 0]
    /\ session = "none"
    /\ last = NoLast

\* an installation whose profile was created at an earlier visit and
\* loaded by App.init: the record of Profile(d) in the store and in
\* state.profile, its identity in state.identity
Init ==
    /\ InitRest
    /\ stateIdentity = [d \in Devices |->
          [did |-> Profile(d).did, publicKey |-> Profile(d).publicKey,
           privateKey |-> Profile(d).privateKey, created |-> 0]]
    /\ stateProfile = [d \in Devices |->
          [id |-> Profile(d).id, firstName |-> Profile(d).firstName,
           lastName |-> Profile(d).lastName,
           nickname |-> Profile(d).nickname, bio |-> Profile(d).bio,
           profilePicture |-> Profile(d).profilePicture,
           identity |-> stateIdentity[d], created |-> 0, updated |-> 0]]
    /\ profileStore = [d \in Devices |-> {stateProfile[d]}]

\* a new installation, which App.init shows the setup screen: no profile
\* in the store, state.profile and state.identity null
InitSetup ==
    /\ InitRest
    /\ profileStore = [d \in Devices |-> {}]
    /\ stateProfile = [d \in Devices |-> NULL]
    /\ stateIdentity = [d \in Devices |-> NULL]

\* ------------------------------------------------------------- helpers
Task(kind, pc, data) == [kind |-> kind, pc |-> pc, data |-> data]

RemoveAt(s, i) == SubSeq(s, 1, i - 1) \o SubSeq(s, i + 1, Len(s))

Last(op, d, arg) == [op |-> op, dev |-> d, arg |-> arg]

Idle == sync = NoSync

Running(d, label) == sync = [dev |-> d, label |-> label]

Go(d, label) == [dev |-> d, label |-> label]

\* a user action: it spends one of MaxUser and spoils an open session
UserAction ==
    /\ Idle
    /\ used.user < MaxUser
    /\ used' = [used EXCEPT !.user = @ + 1]
    /\ session' = IF session = "open" THEN "spoiled" ELSE session

\* an awaited operation or a transport event, which fails (ok = FALSE)
\* while failures remain; a failure spoils the session
Awaited(ok) ==
    /\ Idle
    /\ IF ok THEN TRUE ELSE used.fail < MaxFail
    /\ used' = IF ok THEN used ELSE [used EXCEPT !.fail = @ + 1]
    /\ session' = IF ok THEN session ELSE "spoiled"

\* the peer connection at the other end of <<d, n>>, <<"none", 0>> if the
\* offer/answer exchange of the two has not been completed
PeerOf(P, d, n) ==
    LET e == Other(d)
        me == P[d][n]
        cand ==
            IF me.initiator
            THEN { m \in 1..Len(P[e]) :
                     /\ me.remote = Description("answer", e, m)
                     /\ P[e][m].remote = Description("offer", d, n) }
            ELSE { m \in 1..Len(P[e]) :
                     /\ me.remote = Description("offer", e, m)
                     /\ P[e][m].remote = Description("answer", d, n) }
    IN  IF cand = {} THEN <<"none", 0>> ELSE <<e, CHOOSE m \in cand : TRUE>>

\* WebRTC.sendData: true iff the message was handed to an open channel
sendDataOk(P, d, dc) == dc # 0 /\ P[d][dc].chan = "open"

\* the message types whose receipt changes the receiver: handleDataReceived
\* answers `connections`, `messages` and `relays` with an acknowledgement
\* only, and has no branch for an acknowledgement.  The channel of the model
\* carries the messages of these types, and the `messages` and `relays`
\* messages that have items: the receipt of another one leaves both devices
\* as they are.
Handled == {"profile", "complete"}

\* the messages the channel of the model carries
Carried(msg) ==
    \/ msg.type \in Handled
    \/ msg.type \in {"messages", "relays"} /\ msg.items # {}

\* WebRTC.sendData: the peer connections after the call; a message handed
\* to a channel whose other end is gone is lost
sendData(P, d, dc, msg) ==
    IF ~sendDataOk(P, d, dc) THEN P
    ELSE LET pr == PeerOf(P, d, dc)
             P1 == [P EXCEPT ![d][dc].completeSent =
                       @ \/ msg.type = "complete"]
         IN  IF \/ pr[2] = 0
                \/ P[pr[1]][pr[2]].chan \in {"closing", "closed"}
                \/ ~Carried(msg)
             THEN P1
             ELSE [P1 EXCEPT ![pr[1]][pr[2]].inbox = Append(@, msg)]

\* a data channel message: its type, the profile or the items it carries,
\* and the length an acknowledgement echoes
Message(t, profile, items, count) ==
    [type |-> t, profile |-> profile, items |-> items, count |-> count]

\* handleConnectionStateChange whose 'disconnected' branch lacks the test
\* for COMPLETE
StageAfterStateChangeNoComplete(stage, state) ==
    IF state = "connected"
    THEN IF stage # STAGES.CONNECTED THEN STAGES.CONNECTED ELSE stage
    ELSE IF state \in {"disconnected", "failed"}
         THEN IF stage # STAGES.FAILED THEN STAGES.FAILED ELSE stage
         ELSE stage

\* Connect.handleConnectionStateChange: the stage it leaves
StageAfterStateChange(stage, state) ==
    IF state = "connected"
    THEN IF stage # STAGES.CONNECTED THEN STAGES.CONNECTED ELSE stage
    ELSE IF state \in {"disconnected", "failed"}
         THEN IF stage # STAGES.COMPLETE /\ stage # STAGES.FAILED
              THEN STAGES.FAILED
              ELSE stage
         ELSE stage

\* Connect.handleConnectionStateChange: whether it calls handleDataExchange
StartsExchange(stage, state) ==
    state = "connected" /\ stage # STAGES.CONNECTED

\* what a state change report does to WebRTC.connectionState and to Connect
handleConnectionStateChange(d, state) ==
    /\ connectionState' = [connectionState EXCEPT ![d] = state]
    /\ connectionStage' = [connectionStage EXCEPT
          ![d] = StageAfterStateChange(@, state)]
    /\ sync' = IF StartsExchange(connectionStage[d], state)
               THEN Go(d, "exchange") ELSE NoSync

\* peerConnection.onconnectionstatechange reads the module's current
\* peerConnection, whichever connection fired; "none" when that is null and
\* the handler throws before it reports
ReportedPcState(P, d) ==
    IF peerConnection[d] = 0 THEN "none" ELSE P[d][peerConnection[d]].conn

\* peerConnection.onconnectionstatechange after a state change of a
\* connection of d
onconnectionstatechange(d, P) ==
    IF ReportedPcState(P, d) = "none"
    THEN UNCHANGED <<connectionState, connectionStage, sync>>
    ELSE handleConnectionStateChange(d, ReportedPcState(P, d))

\* --------------------------------------------------------------- Connect
\* Connect.init: WebRTC.init resets the connection, which reports
\* 'disconnected' to handleConnectionStateChange; generateQRCode follows
ConnectInit(d) ==
    /\ Idle
    /\ ~booted[d]
    /\ booted' = [booted EXCEPT ![d] = TRUE]
    /\ isInitiator' = [isInitiator EXCEPT ![d] = FALSE]
    /\ connectionState' = [connectionState EXCEPT ![d] = "disconnected"]
    /\ connectionStage' = [connectionStage EXCEPT
          ![d] = StageAfterStateChange(@, "disconnected")]
    /\ sync' = Go(d, "generate")
    /\ last' = Last("init", d, "none")
    /\ UNCHANGED <<dataVars, uiVars, peerConnection, dataChannel, pcs, tasks,
                   runs, appVars, used, session>>

\* generateQRCode up to the await in WebRTC.initiateConnection: stage INIT,
\* connectionData of initializeConnectionOffer, createPeerConnection(true)
generateQRCode(d) ==
    /\ LET n == Len(pcs[d]) + 1
       IN  /\ connectionStage' = [connectionStage EXCEPT ![d] = STAGES.INIT]
           /\ connectionData' = [connectionData EXCEPT ![d] = OfferData(d)]
           /\ isInitiator' = [isInitiator EXCEPT ![d] = TRUE]
           /\ pcs' = [pcs EXCEPT ![d] = Append(@, NewPC(TRUE))]
           /\ peerConnection' = [peerConnection EXCEPT ![d] = n]
           /\ dataChannel' = [dataChannel EXCEPT ![d] = n]
           /\ tasks' = [tasks EXCEPT ![d] = Append(@, Task("offer", n, NULL))]
    /\ sync' = NoSync
    /\ UNCHANGED <<localDescription, remoteDescription, answerQrCode, uiVars,
                   connectionState, runs, appVars, booted>>

\* generateQRCode as called by Connect.init
InitGenerateQRCode(d) ==
    /\ Running(d, "generate")
    /\ generateQRCode(d)
    /\ UNCHANGED <<used, session, last>>

\* generateQRCode as called by the user (the Show QR tab,
\* toggleOnboardingMode(false))
UserGenerateQRCode(d) ==
    /\ UserAction
    /\ booted[d]
    /\ generateQRCode(d)
    /\ last' = Last("generateQRCode", d, "none")

\* initializeConnectionOffer after the awaits of initiateConnection
\* (createOffer, setLocalDescription), which use the module's current
\* peerConnection; ok = FALSE is a transport error
OfferReady(d, i, ok) ==
    /\ Awaited(ok)
    /\ i \in 1..Len(tasks[d])
    /\ tasks[d][i].kind = "offer"
    /\ tasks' = [tasks EXCEPT ![d] = RemoveAt(@, i)]
    /\ LET n == tasks[d][i].pc
           desc == Description("offer", d, n)
       IN  IF ok /\ peerConnection[d] = n /\ ~pcs[d][n].closed
           THEN /\ pcs' = [pcs EXCEPT ![d][n].local = desc]
                /\ localDescription' = [localDescription EXCEPT ![d] = desc]
                /\ connectionStage' =
                      [connectionStage EXCEPT ![d] = STAGES.OFFER_CREATED]
                /\ qrcode' = [qrcode EXCEPT
                      ![d] = [connectionData[d] EXCEPT !.webrtc = desc]]
                /\ last' = Last("offerReady", d, "ok")
           ELSE /\ connectionStage' =
                      [connectionStage EXCEPT ![d] = STAGES.FAILED]
                /\ last' = Last("offerReady", d, "throw")
                /\ UNCHANGED <<pcs, localDescription, qrcode>>
    /\ UNCHANGED <<connectionData, remoteDescription, answerQrCode,
                   scannerActive, modal, rtcVars, connectionState, runs,
                   sync, appVars, booted>>

\* startScanner up to the await of getUserMedia
startScanner(d) ==
    /\ UserAction
    /\ booted[d]
    /\ ~scannerActive[d]
    /\ connectionStage' = [connectionStage EXCEPT ![d] = STAGES.SCANNING]
    /\ tasks' = [tasks EXCEPT ![d] = Append(@, Task("camera", 0, NULL))]
    /\ last' = Last("startScanner", d, "none")
    /\ UNCHANGED <<dataVars, uiVars, rtcVars, connectionState, pcs, runs,
                   sync, appVars, booted>>

\* startScanner after getUserMedia: the scanner runs, or the camera failed
\* and the catch block puts the stage back to INIT
CameraReady(d, i, ok) ==
    /\ Awaited(ok)
    /\ i \in 1..Len(tasks[d])
    /\ tasks[d][i].kind = "camera"
    /\ tasks' = [tasks EXCEPT ![d] = RemoveAt(@, i)]
    /\ IF ok
       THEN /\ scannerActive' = [scannerActive EXCEPT ![d] = TRUE]
            /\ last' = Last("cameraReady", d, "ok")
            /\ UNCHANGED connectionStage
       ELSE /\ connectionStage' = [connectionStage EXCEPT ![d] = STAGES.INIT]
            /\ last' = Last("cameraReady", d, "throw")
            /\ UNCHANGED scannerActive
    /\ UNCHANGED <<dataVars, qrcode, modal, rtcVars, connectionState, pcs,
                   runs, sync, appVars, booted>>

\* the code the other device displays
Displayed(d) == IF qrcode[d] = NULL THEN {} ELSE {qrcode[d]}

\* the codes the scanner of d can be pointed at
Scannable(d) == Displayed(Other(d)) \cup ForeignCodes

\* handleConnectionAnswer whose DID check compares nothing
DidMismatchNever(cd, answerData) == cd # NULL /\ cd.did # cd.did

\* handleConnectionAnswer: the DID check
DidMismatch(cd, answerData) == cd # NULL /\ cd.did # answerData.did

\* processScannedCode for a code that is not a connection answer:
\* handleConnectionOffer, the onboarding redirect, or the catch block
processOtherCode(d, data) ==
    /\ data.type # "connection_answer"
    /\ IF data.type = "connection"
       THEN /\ connectionStage' =
                  [connectionStage EXCEPT ![d] = STAGES.OFFER_SCANNED]
            /\ connectionData' = [connectionData EXCEPT ![d] = data]
            /\ remoteDescription' =
                  [remoteDescription EXCEPT ![d] = data.webrtc]
            /\ modal' = [modal EXCEPT ![d] = [data |-> data, active |-> TRUE]]
       ELSE IF data.type = "onboarding_url"
       THEN UNCHANGED <<connectionStage, connectionData, remoteDescription,
                        modal>>
       ELSE /\ connectionStage' =
                  [connectionStage EXCEPT ![d] = STAGES.FAILED]
            /\ UNCHANGED <<connectionData, remoteDescription, modal>>
    /\ UNCHANGED <<tasks, sync>>

\* handleConnectionAnswer up to the await of WebRTC.completeConnection,
\* which calls setRemoteDescription on the current peerConnection and
\* throws at once when there is none
handleConnectionAnswer(d, data) ==
    /\ data.type = "connection_answer"
    /\ IF DidMismatch(connectionData[d], data)
       THEN /\ connectionStage' =
                  [connectionStage EXCEPT ![d] = STAGES.FAILED]
            /\ UNCHANGED <<remoteDescription, tasks, sync>>
       ELSE /\ connectionStage' =
                  [connectionStage EXCEPT ![d] = STAGES.ANSWER_SCANNED]
            /\ remoteDescription' =
                  [remoteDescription EXCEPT ![d] = data.webrtc]
            /\ IF peerConnection[d] = 0
               THEN /\ sync' = Go(d, "answer_throw")
                    /\ UNCHANGED tasks
               ELSE /\ tasks' = [tasks EXCEPT ![d] =
                          Append(@, Task("complete", peerConnection[d],
                                         data.webrtc))]
                    /\ UNCHANGED sync
    /\ UNCHANGED <<connectionData, modal>>

\* the scanner found a code: processScannedCode
processScannedCode(d, data) ==
    /\ Idle
    /\ scannerActive[d]
    /\ scannerActive' = [scannerActive EXCEPT ![d] = FALSE]
    /\ \/ processOtherCode(d, data)
       \/ handleConnectionAnswer(d, data)
    /\ last' = Last("scan", d, data)
    /\ UNCHANGED <<localDescription, answerQrCode, qrcode, rtcVars,
                   connectionState, pcs, runs, appVars, booted, used,
                   session>>

\* handleConnectionAnswer: the catch block after WebRTC.completeConnection
\* threw for want of a peer connection
AnswerThrow(d) ==
    /\ Running(d, "answer_throw")
    /\ connectionStage' = [connectionStage EXCEPT ![d] = STAGES.FAILED]
    /\ sync' = NoSync
    /\ UNCHANGED <<dataVars, uiVars, rtcVars, connectionState, pcs, tasks,
                   runs, appVars, booted, used, session, last>>

\* setRemoteDescription(answer) succeeds on a connection that holds its own
\* offer and no answer yet
CanComplete(pc) ==
    ~pc.closed /\ pc.initiator /\ pc.local # NULL /\ pc.remote = NULL

\* handleConnectionAnswer that goes on to the data exchange without the
\* assignment of CONNECTED
CompleteReadyKeepsStage(d, i, ok) ==
    /\ Awaited(ok)
    /\ i \in 1..Len(tasks[d])
    /\ tasks[d][i].kind = "complete"
    /\ tasks' = [tasks EXCEPT ![d] = RemoveAt(@, i)]
    /\ LET n == tasks[d][i].pc
       IN  IF ok /\ CanComplete(pcs[d][n])
           THEN /\ pcs' = [pcs EXCEPT ![d][n].remote = tasks[d][i].data]
                /\ sync' = Go(d, "exchange")
                /\ last' = Last("completeReady", d, "ok")
                /\ UNCHANGED connectionStage
           ELSE /\ connectionStage' =
                      [connectionStage EXCEPT ![d] = STAGES.FAILED]
                /\ last' = Last("completeReady", d, "throw")
                /\ UNCHANGED <<pcs, sync>>
    /\ UNCHANGED <<dataVars, uiVars, rtcVars, connectionState, runs, appVars,
                   booted>>

\* handleConnectionAnswer after the await of WebRTC.completeConnection: the
\* stage becomes CONNECTED and handleDataExchange runs next, or the catch
\* block sets FAILED
CompleteReady(d, i, ok) ==
    /\ Awaited(ok)
    /\ i \in 1..Len(tasks[d])
    /\ tasks[d][i].kind = "complete"
    /\ tasks' = [tasks EXCEPT ![d] = RemoveAt(@, i)]
    /\ LET n == tasks[d][i].pc
       IN  IF ok /\ CanComplete(pcs[d][n])
           THEN /\ pcs' = [pcs EXCEPT ![d][n].remote = tasks[d][i].data]
                /\ connectionStage' =
                      [connectionStage EXCEPT ![d] = STAGES.CONNECTED]
                /\ sync' = Go(d, "exchange")
                /\ last' = Last("completeReady", d, "ok")
           ELSE /\ connectionStage' =
                      [connectionStage EXCEPT ![d] = STAGES.FAILED]
                /\ last' = Last("completeReady", d, "throw")
                /\ UNCHANGED <<pcs, sync>>
    /\ UNCHANGED <<dataVars, uiVars, rtcVars, connectionState, runs, appVars,
                   booted>>

\* handleConnectionConfirmation, pressed in the open confirmation modal:
\* accepted, up to the await in WebRTC.acceptConnection
\* (createPeerConnection(false)); declined, resetConnectionState
handleConnectionConfirmation(d, confirmed) ==
    /\ UserAction
    /\ modal[d].active
    /\ modal' = [modal EXCEPT ![d].active = FALSE]
    /\ IF confirmed
       THEN /\ LET n == Len(pcs[d]) + 1
               IN  /\ isInitiator' = [isInitiator EXCEPT ![d] = FALSE]
                   /\ pcs' = [pcs EXCEPT ![d] = Append(@, NewPC(FALSE))]
                   /\ peerConnection' = [peerConnection EXCEPT ![d] = n]
                   /\ tasks' = [tasks EXCEPT ![d] =
                         Append(@, Task("answer", n, modal[d].data))]
            /\ UNCHANGED sync
       ELSE /\ sync' = Go(d, "reset")
            /\ UNCHANGED <<isInitiator, pcs, peerConnection, tasks>>
    /\ last' = Last("confirmation", d, IF confirmed THEN "yes" ELSE "no")
    /\ UNCHANGED <<connectionStage, dataVars, scannerActive, qrcode,
                   dataChannel, connectionState, runs, appVars, booted>>

\* handleConnectionConfirmation after the awaits of acceptConnection
\* (setRemoteDescription, createAnswer, setLocalDescription):
\* generateAnswerQRCode and stage ANSWER_CREATED, or the catch block
AnswerReady(d, i, ok) ==
    /\ Awaited(ok)
    /\ i \in 1..Len(tasks[d])
    /\ tasks[d][i].kind = "answer"
    /\ tasks' = [tasks EXCEPT ![d] = RemoveAt(@, i)]
    /\ LET n == tasks[d][i].pc
           desc == Description("answer", d, n)
       IN  IF ok /\ peerConnection[d] = n /\ ~pcs[d][n].closed
           THEN /\ pcs' = [pcs EXCEPT ![d][n].remote = tasks[d][i].data.webrtc,
                                      ![d][n].local = desc]
                /\ localDescription' = [localDescription EXCEPT ![d] = desc]
                /\ IF connectionData[d] # NULL
                   THEN /\ qrcode' = [qrcode EXCEPT ![d] =
                              [type |-> "connection_answer",
                               did |-> connectionData[d].did,
                               webrtc |-> desc]]
                        /\ answerQrCode' =
                              [answerQrCode EXCEPT ![d] = qrcode'[d]]
                        /\ connectionStage' = [connectionStage EXCEPT
                              ![d] = STAGES.ANSWER_CREATED]
                        /\ last' = Last("answerReady", d, "ok")
                        /\ UNCHANGED sync
                   ELSE /\ sync' = Go(d, "reset")
                        /\ last' = Last("answerReady", d, "throw")
                        /\ UNCHANGED <<qrcode, answerQrCode, connectionStage>>
           ELSE /\ sync' = Go(d, "reset")
                /\ last' = Last("answerReady", d, "throw")
                /\ UNCHANGED <<pcs, localDescription, qrcode, answerQrCode,
                               connectionStage>>
    /\ UNCHANGED <<connectionData, remoteDescription, scannerActive, modal,
                   rtcVars, connectionState, runs, appVars, booted>>

\* resetConnectionState up to the call of WebRTC.closeConnection
resetConnectionState(d) ==
    /\ Running(d, "reset")
    /\ connectionStage' = [connectionStage EXCEPT ![d] = STAGES.INIT]
    /\ connectionData' = [connectionData EXCEPT ![d] = NULL]
    /\ localDescription' = [localDescription EXCEPT ![d] = NULL]
    /\ remoteDescription' = [remoteDescription EXCEPT ![d] = NULL]
    /\ answerQrCode' = [answerQrCode EXCEPT ![d] = NULL]
    /\ sync' = Go(d, "close")
    /\ UNCHANGED <<uiVars, rtcVars, connectionState, pcs, tasks, runs,
                   appVars, booted, used, session, last>>

\* RTCDataChannel.close / RTCPeerConnection.close: the channel end after it
ClosedChan(c) == IF c \in {"connecting", "open"} THEN "closing" ELSE c

\* WebRTC.resetConnection: the peer connections it leaves
resetConnection(P, d) ==
    LET dc == dataChannel[d]
        pc == peerConnection[d]
        P1 == IF dc = 0 THEN P
              ELSE [P EXCEPT ![d][dc].chan = ClosedChan(@)]
    IN  IF pc = 0 THEN P1
        ELSE [P1 EXCEPT ![d][pc].closed = TRUE,
                        ![d][pc].conn = "closed",
                        ![d][pc].chan = ClosedChan(@)]

\* WebRTC.closeConnection, called by resetConnectionState: resetConnection
\* closes the channel and the connection and reports 'disconnected' to
\* handleConnectionStateChange
closeConnection(d) ==
    /\ Running(d, "close")
    /\ pcs' = resetConnection(pcs, d)
    /\ dataChannel' = [dataChannel EXCEPT ![d] = 0]
    /\ peerConnection' = [peerConnection EXCEPT ![d] = 0]
    /\ isInitiator' = [isInitiator EXCEPT ![d] = FALSE]
    /\ handleConnectionStateChange(d, "disconnected")
    /\ UNCHANGED <<dataVars, uiVars, tasks, runs, appVars, booted, used,
                   session, last>>

\* ---------------------------------------------------------- data exchange
\* App.getState().messages: what handleDataExchange passes on
AppMessages(d) == [sent |-> Range(sent[d]), relays |-> Range(stateRelays[d])]

\* sendMessagesData: the messages it sends (messagesToSend stays empty)
sendMessagesData(messages) == {}

\* sendRelaysData: the relays it sends, filtered by connectionData.did
sendRelaysData(cd, relays) ==
    IF cd # NULL
    THEN { r \in relays : r.targetRecipientId = cd.did }
    ELSE {}

\* sendProfileData that sends state.profile as it is, identity included
sendProfileDataWhole(profile) == profile

\* sendProfileData: the profile data it sends, the picture when there is one
sendProfileData(profile) ==
    [firstName |-> profile.firstName, lastName |-> profile.lastName,
     nickname |-> Or(profile.nickname, ""), bio |-> Or(profile.bio, ""),
     did |-> profile.did, publicKey |-> profile.publicKey,
     profilePicture |-> IF Truthy(profile.profilePicture)
                        THEN profile.profilePicture ELSE ""]

\* sendConnectionsData: the simplified list of connections it sends
sendConnectionsData(connections) ==
    { [firstName |-> c.firstName, lastName |-> c.lastName, did |-> c.did] :
      c \in Range(connections) }

\* the message the k-th send of handleDataExchange hands to WebRTC.sendData
\* (sendProfileData, sendConnectionsData, sendMessagesData, sendRelaysData,
\* complete)
ExchangeMessage(d, k) ==
    IF k = 1 THEN Message("profile", sendProfileData(Profile(d)), {}, 0)
    ELSE IF k = 2
    THEN Message("connections", NULL,
                 sendConnectionsData(stateConnections[d]),
                 Len(stateConnections[d]))
    ELSE IF k = 3
    THEN Message("messages", NULL, sendMessagesData(AppMessages(d)),
                 Cardinality(sendMessagesData(AppMessages(d))))
    ELSE IF k = 4
    THEN Message("relays", NULL,
                 sendRelaysData(connectionData[d], AppMessages(d).relays),
                 Cardinality(sendRelaysData(connectionData[d],
                                            AppMessages(d).relays)))
    ELSE Message("complete", NULL, {}, 0)

\* handleDataExchange up to its first timer: stage EXCHANGING and
\* sendProfileData
handleDataExchange(d) ==
    /\ Running(d, "exchange")
    /\ connectionStage' = [connectionStage EXCEPT ![d] = STAGES.EXCHANGING]
    /\ pcs' = sendData(pcs, d, dataChannel[d], ExchangeMessage(d, 1))
    /\ runs' = [runs EXCEPT ![d] = Append(@, 1)]
    /\ sync' = NoSync
    /\ UNCHANGED <<dataVars, uiVars, rtcVars, connectionState, tasks, appVars,
                   booted, used, session, last>>

\* handleDataExchange after a 500 ms timer: the next send.  Every run of a
\* device waits on a timer of the same delay, and timers of equal delay
\* fire in the order they were set: runs[d] is the queue of the pending
\* timers, the run at its head resumes and sets the next timer behind the
\* others.
ExchangeStep(d) ==
    /\ Idle
    /\ runs[d] # <<>>
    /\ used.timer < MaxTimers
    /\ used' = [used EXCEPT !.timer = @ + 1]
    /\ LET k == Head(runs[d]) + 1
       IN  /\ pcs' = sendData(pcs, d, dataChannel[d], ExchangeMessage(d, k))
           /\ runs' = [runs EXCEPT ![d] =
                 IF k = 5 THEN Tail(@) ELSE Append(Tail(@), k)]
           /\ last' = Last("exchangeStep", d, ExchangeMessage(d, k).type)
    /\ UNCHANGED <<connectionStage, dataVars, uiVars, rtcVars,
                   connectionState, tasks, sync, appVars, booted, session>>

\* ------------------------------------------------------------- transport
\* the other end of <<d, n>> exists and can still be connected to
Connectable(P, d, n) ==
    LET pr == PeerOf(P, d, n)
    IN  pr[2] # 0 /\ ~P[pr[1]][pr[2]].closed
                  /\ P[pr[1]][pr[2]].conn \in {"new", "connected"}

\* the transport connects <<d, n>> to its peer: onconnectionstatechange
PcConnected(d, n) ==
    /\ Idle
    /\ n \in 1..Len(pcs[d])
    /\ ~pcs[d][n].closed
    /\ pcs[d][n].conn = "new"
    /\ Connectable(pcs, d, n)
    /\ pcs' = [pcs EXCEPT ![d][n].conn = "connected"]
    /\ onconnectionstatechange(d, pcs')
    /\ last' = Last("stateChange", d, ReportedPcState(pcs', d))
    /\ UNCHANGED <<dataVars, uiVars, rtcVars, tasks, runs, appVars, booted,
                   used, session>>

\* the channel end of <<d, n>> opens (on the answerer: ondatachannel stores
\* the channel, then onopen): channel.onopen reports 'connected'
ChannelOpen(d, n) ==
    /\ Idle
    /\ n \in 1..Len(pcs[d])
    /\ ~pcs[d][n].closed
    /\ pcs[d][n].conn = "connected"
    /\ pcs[d][n].chan = (IF pcs[d][n].initiator THEN "connecting" ELSE "none")
    /\ LET pr == PeerOf(pcs, d, n)
       IN  /\ pr[2] # 0
           /\ ~pcs[pr[1]][pr[2]].closed
           /\ pcs[pr[1]][pr[2]].chan \in {"none", "connecting", "open"}
           /\ session' = IF session = "none" /\ pcs[pr[1]][pr[2]].chan = "open"
                         THEN "open" ELSE session
    /\ pcs' = [pcs EXCEPT ![d][n].chan = "open", ![d][n].opened = TRUE]
    /\ dataChannel' = [dataChannel EXCEPT
          ![d] = IF pcs[d][n].initiator THEN @ ELSE n]
    /\ handleConnectionStateChange(d, "connected")
    /\ last' = Last("stateChange", d, "connected")
    /\ UNCHANGED <<dataVars, uiVars, peerConnection, isInitiator, tasks, runs,
                   appVars, booted, used>>

\* the transport of <<d, n>> fails on its own (own), or loses a peer that
\* closed: onconnectionstatechange
PcLost(d, n, own) ==
    /\ Awaited(~own)
    /\ n \in 1..Len(pcs[d])
    /\ ~pcs[d][n].closed
    /\ pcs[d][n].conn = "connected"
    /\ LET pr == PeerOf(pcs, d, n)
       IN  IF own THEN TRUE ELSE pr[2] # 0 /\ pcs[pr[1]][pr[2]].closed
    /\ pcs' = [pcs EXCEPT ![d][n].conn = IF own THEN "failed"
                                          ELSE "disconnected"]
    /\ onconnectionstatechange(d, pcs')
    /\ last' = Last("stateChange", d, ReportedPcState(pcs', d))
    /\ UNCHANGED <<dataVars, uiVars, rtcVars, tasks, runs, appVars, booted>>

\* the channel end of <<d, n>> may close: it was closed locally, or the
\* other end is closed
Closable(P, d, n) ==
    IF P[d][n].chan = "closing" THEN TRUE
    ELSE /\ P[d][n].chan = "open"
         /\ LET pr == PeerOf(P, d, n)
            IN  pr[2] # 0 /\ (P[pr[1]][pr[2]].closed
                              \/ P[pr[1]][pr[2]].chan \in {"closing", "closed"})

\* channel.onclose reports 'disconnected'; anything still in flight is lost.
\* A channel closed by its own side may also go without an event reaching
\* the page.
ChannelClosed(d, n, event) ==
    /\ Idle
    /\ n \in 1..Len(pcs[d])
    /\ Closable(pcs, d, n)
    /\ IF event THEN TRUE ELSE pcs[d][n].chan = "closing"
    /\ pcs' = [pcs EXCEPT ![d][n].chan = "closed", ![d][n].inbox = <<>>]
    /\ IF event
       THEN /\ handleConnectionStateChange(d, "disconnected")
            /\ last' = Last("stateChange", d, "disconnected")
       ELSE /\ last' = Last("channelGone", d, "none")
            /\ UNCHANGED <<connectionState, connectionStage, sync>>
    /\ UNCHANGED <<dataVars, uiVars, rtcVars, tasks, runs, appVars, booted,
                   used, session>>

\* channel.onerror reports 'failed'
ChannelError(d, n) ==
    /\ Awaited(FALSE)
    /\ n \in 1..Len(pcs[d])
    /\ pcs[d][n].chan = "open"
    /\ pcs' = [pcs EXCEPT ![d][n].chan = "closing"]
    /\ handleConnectionStateChange(d, "failed")
    /\ last' = Last("stateChange", d, "failed")
    /\ UNCHANGED <<dataVars, uiVars, rtcVars, tasks, runs, appVars, booted>>

\* ------------------------------------------------------ received messages
\* the argument completeConnection passes to App.addConnection
CommitArgs(cd) ==
    [did |-> cd.did, publicKey |-> cd.publicKey, firstName |-> cd.firstName,
     lastName |-> cd.lastName, nickname |-> cd.nickname, bio |-> cd.bio,
     profilePicture |-> Or(cd.profilePicture, "null")]

\* an acknowledgement that is profile_ack for every message
AckProfile(msg) == Message("profile_ack", NULL, {}, msg.count)

\* the acknowledgement processReceived* sends for a message
Ack(msg) == Message(msg.type \o "_ack", NULL, {}, msg.count)

\* the message types handleDataReceived acknowledges
Acked == {"profile", "connections", "messages", "relays"}

\* processReceivedProfile: connectionData after a profile message
processReceivedProfile(cd, msg) ==
    IF cd # NULL
    THEN [cd EXCEPT !.firstName = msg.profile.firstName,
                    !.lastName = msg.profile.lastName,
                    !.nickname = Or(msg.profile.nickname, ""),
                    !.bio = Or(msg.profile.bio, ""),
                    !.profilePicture =
                        IF Truthy(msg.profile.profilePicture)
                        THEN msg.profile.profilePicture ELSE @]
    ELSE cd

\* channel.onmessage on the channel end of <<d, n>>: handleDataReceived.
\* profile: processReceivedProfile; connections, messages, relays: the
\* acknowledgement; complete: handleTransferComplete up to the await of
\* App.addConnection, whose argument is built before the await and throws
\* into the catch block of completeConnection without connectionData;
\* acknowledgements match no branch.  last records, with the type of the
\* message, what was handed to WebRTC.sendData in answer and what sendData
\* returned
handleDataReceived(d, n) ==
    /\ Idle
    /\ n \in 1..Len(pcs[d])
    /\ pcs[d][n].chan = "open"
    /\ pcs[d][n].inbox # <<>>
    /\ LET msg == Head(pcs[d][n].inbox)
           P1 == [pcs EXCEPT ![d][n].inbox = Tail(@)]
       IN  /\ pcs' = IF msg.type \in Acked
                     THEN sendData(P1, d, dataChannel[d], Ack(msg))
                     ELSE P1
           /\ connectionData' = [connectionData EXCEPT ![d] =
                 IF msg.type = "profile"
                 THEN processReceivedProfile(@, msg) ELSE @]
           /\ IF msg.type = "complete"
              THEN /\ connectionStage' =
                         [connectionStage EXCEPT ![d] = STAGES.COMPLETE]
                   /\ IF connectionData[d] = NULL
                      THEN /\ sync' = Go(d, "reset")
                           /\ UNCHANGED tasks
                      ELSE /\ tasks' = [tasks EXCEPT ![d] =
                                 Append(@, Task("lookup", 0,
                                                CommitArgs(connectionData[d])))]
                           /\ UNCHANGED sync
              ELSE UNCHANGED <<connectionStage, tasks, sync>>
           /\ inbound' = [inbound EXCEPT ![d] =
                 IF msg.type \in {"messages", "relays"}
                 THEN @ \cup msg.items ELSE @]
           /\ last' = [op |-> "received", dev |-> d, arg |-> msg.type,
                       acks |-> IF msg.type \in Acked
                                THEN << [msg |-> Ack(msg),
                                         ok |-> sendDataOk(P1, d,
                                                           dataChannel[d])] >>
                                ELSE << >>]
    /\ UNCHANGED <<localDescription, remoteDescription, answerQrCode, uiVars,
                   rtcVars, connectionState, runs, connStore, stateConnections,
                   idCtr, msgStore, received, now, authorVars, booted, used,
                   session, profileVars>>

\* ------------------------------------------------------------------- App
\* ticks of the clock in a day
Day == 2

\* ticks of the clock in a year
Year == 365 * Day

\* expiresOn.setFullYear(expiresOn.getFullYear() + 1)
AddYear(t) == t + Year

\* createNewConnection: the record it builds.  The clock is read three times,
\* for expiresOn at t, for firstConnected a ticks later and for
\* lastConnected b ticks after that.
createNewConnection(id, args, t, a, b) ==
    [id |-> id, did |-> args.did, publicKey |-> args.publicKey,
     firstName |-> args.firstName, lastName |-> args.lastName,
     nickname |-> args.nickname, bio |-> args.bio,
     profilePicture |-> Or(args.profilePicture, "null"),
     firstConnected |-> t + a, lastConnected |-> t + a + b,
     expiresOn |-> AddYear(t), connectionCount |-> 1]

\* updateExistingConnection that leaves expiresOn as it was
updateExistingConnectionKeepsExpiry(existing, args, t, a) ==
    [existing EXCEPT
        !.publicKey = Or(args.publicKey, @),
        !.firstName = Or(args.firstName, @),
        !.lastName = Or(args.lastName, @),
        !.nickname = Or(args.nickname, @),
        !.bio = Or(args.bio, @),
        !.lastConnected = t + a,
        !.connectionCount = @ + 1,
        !.profilePicture =
            IF Truthy(args.profilePicture) THEN args.profilePicture ELSE @]

\* updateExistingConnection that overwrites with whatever comes in
updateExistingConnectionOverwrites(existing, args, t, a) ==
    [existing EXCEPT
        !.publicKey = args.publicKey,
        !.firstName = args.firstName,
        !.lastName = args.lastName,
        !.nickname = args.nickname,
        !.bio = args.bio,
        !.lastConnected = t + a,
        !.expiresOn = AddYear(t),
        !.connectionCount = @ + 1,
        !.profilePicture = args.profilePicture]

\* updateExistingConnection: the record it builds.  The clock is read twice,
\* for expiresOn at t and for lastConnected a ticks later.
updateExistingConnection(existing, args, t, a) ==
    [existing EXCEPT
        !.publicKey = Or(args.publicKey, @),
        !.firstName = Or(args.firstName, @),
        !.lastName = Or(args.lastName, @),
        !.nickname = Or(args.nickname, @),
        !.bio = Or(args.bio, @),
        !.lastConnected = t + a,
        !.expiresOn = AddYear(t),
        !.connectionCount = @ + 1,
        !.profilePicture =
            IF Truthy(args.profilePicture) THEN args.profilePicture ELSE @]

\* App.addConnection after the await of DB.getConnectionByDID, up to the
\* await of DB.saveConnection in createNewConnection or
\* updateExistingConnection; the clock advances by a and then by b between
\* the reads of the handler
addConnection(d, i, a, b) ==
    /\ Idle
    /\ now' = now + a + b
    /\ i \in 1..Len(tasks[d])
    /\ tasks[d][i].kind = "lookup"
    /\ LET args == tasks[d][i].data
           found == { r \in connStore[d] : r.did = args.did }
       IN  IF found = {}
           THEN /\ idCtr' = [idCtr EXCEPT ![d] = @ + 1]
                /\ tasks' = [tasks EXCEPT ![d] =
                      Append(RemoveAt(@, i),
                             Task("save", 1,
                                  createNewConnection(idCtr[d] + 1, args,
                                                      now, a, b)))]
           ELSE /\ tasks' = [tasks EXCEPT ![d] =
                      Append(RemoveAt(@, i),
                             Task("save", 0,
                                  updateExistingConnection(
                                      CHOOSE r \in found : TRUE, args,
                                      now, a + b)))]
                /\ UNCHANGED idCtr
    /\ last' = Last("addConnection", d, "none")
    /\ UNCHANGED <<connectionStage, dataVars, uiVars, rtcVars,
                   connectionState, pcs, runs, sync, connStore,
                   stateConnections, msgStore, received, authorVars, inbound, booted, used,
                   session, profileVars>>

\* a connection store without the unique index on did
PutAllowedAlways(store, rec) == TRUE

\* DB.saveConnection: store.put fails on the unique did index when another
\* record holds the did
PutAllowed(store, rec) ==
    \A r \in store : r.did = rec.did => r.id = rec.id

\* state.connections after createNewConnection (push) or
\* updateExistingConnection (replace by id)
StateAfterSave(list, rec, isNew) ==
    IF isNew THEN Append(list, rec)
    ELSE [k \in 1..Len(list) |-> IF list[k].id = rec.id THEN rec ELSE list[k]]

\* App.addConnection after the await of DB.saveConnection, and the rest of
\* Connect.completeConnection: resetConnectionState on success and in the
\* catch block; ok = FALSE is a store failure
completeConnection(d, i, ok) ==
    /\ Awaited(ok)
    /\ i \in 1..Len(tasks[d])
    /\ tasks[d][i].kind = "save"
    /\ tasks' = [tasks EXCEPT ![d] = RemoveAt(@, i)]
    /\ LET rec == tasks[d][i].data
       IN  IF ok /\ PutAllowed(connStore[d], rec)
           THEN /\ connStore' = [connStore EXCEPT ![d] =
                      { r \in @ : r.id # rec.id } \cup {rec}]
                /\ stateConnections' = [stateConnections EXCEPT ![d] =
                      StateAfterSave(@, rec, tasks[d][i].pc = 1)]
                /\ last' = Last("completeConnection", d, "ok")
           ELSE /\ last' = Last("completeConnection", d, "throw")
                /\ UNCHANGED <<connStore, stateConnections>>
    /\ sync' = Go(d, "reset")
    /\ UNCHANGED <<connectionStage, dataVars, uiVars, rtcVars,
                   connectionState, pcs, runs, idCtr, msgStore, received, now,
                   authorVars, inbound, booted, profileVars>>

\* ------------------------------------------------------ App: connections
\* App.addConnection(connectionData) up to the await of
\* DB.getConnectionByDID, as Connect.completeConnection calls it
AppAddConnection(d, args) ==
    /\ UserAction
    /\ Len(tasks[d]) < MaxUser
    /\ tasks' = [tasks EXCEPT ![d] = Append(@, Task("lookup", 0, args))]
    /\ last' = Last("addConnectionCall", d, args)
    /\ UNCHANGED <<connectionStage, dataVars, uiVars, rtcVars,
                   connectionState, pcs, runs, sync, appVars, booted>>

\* the continuation of removeConnection(id) behind its await of
\* DB.deleteConnection; rest are the ids cleanupExpiredConnections removes
\* after it
DeleteTask(ids) == Task("delete", 0, [id |-> Head(ids), rest |-> Tail(ids)])

\* App.removeConnection(connectionId) up to the await of
\* DB.deleteConnection, called for the k-th connection of the list
AppRemoveConnection(d, k) ==
    /\ UserAction
    /\ Len(tasks[d]) < MaxUser
    /\ k \in 1..Len(stateConnections[d])
    /\ tasks' = [tasks EXCEPT ![d] =
          Append(@, DeleteTask(<<stateConnections[d][k].id>>))]
    /\ last' = Last("removeConnectionCall", d, stateConnections[d][k].id)
    /\ UNCHANGED <<connectionStage, dataVars, uiVars, rtcVars,
                   connectionState, pcs, runs, sync, appVars, booted>>

\* App.removeConnection that deletes the relays for the removed connection
\* with it
removeConnectionCascade(d, i, ok) ==
    /\ Awaited(ok)
    /\ i \in 1..Len(tasks[d])
    /\ tasks[d][i].kind = "delete"
    /\ LET t == tasks[d][i].data
           gone == { r.did : r \in { c \in connStore[d] : c.id = t.id } }
       IN  IF ok
           THEN /\ connStore' = [connStore EXCEPT ![d] =
                      { r \in @ : r.id # t.id }]
                /\ stateConnections' = [stateConnections EXCEPT ![d] =
                      SelectSeq(@, LAMBDA c : c.id # t.id)]
                /\ relayStore' = [relayStore EXCEPT ![d] =
                      { r \in @ : r.targetRecipientId \notin gone }]
                /\ stateRelays' = [stateRelays EXCEPT ![d] =
                      SelectSeq(@, LAMBDA r : r.targetRecipientId \notin gone)]
                /\ tasks' = [tasks EXCEPT ![d] =
                      IF t.rest = <<>> THEN RemoveAt(@, i)
                      ELSE Append(RemoveAt(@, i), DeleteTask(t.rest))]
                /\ last' = Last("removeConnection", d, t.id)
           ELSE /\ tasks' = [tasks EXCEPT ![d] = RemoveAt(@, i)]
                /\ last' = Last("removeConnection", d, "throw")
                /\ UNCHANGED <<connStore, stateConnections, relayStore,
                               stateRelays>>
    /\ UNCHANGED <<connectionStage, dataVars, uiVars, rtcVars,
                   connectionState, pcs, runs, sync, idCtr, msgStore,
                   received, now, sent, inbound, booted, profileVars>>

\* App.removeConnection after the await of DB.deleteConnection: the filter
\* of state.connections, and the next removeConnection of the loop of
\* cleanupExpiredConnections; ok = FALSE is a store failure, thrown on
removeConnection(d, i, ok) ==
    /\ Awaited(ok)
    /\ i \in 1..Len(tasks[d])
    /\ tasks[d][i].kind = "delete"
    /\ LET t == tasks[d][i].data
       IN  IF ok
           THEN /\ connStore' = [connStore EXCEPT ![d] =
                      { r \in @ : r.id # t.id }]
                /\ stateConnections' = [stateConnections EXCEPT ![d] =
                      SelectSeq(@, LAMBDA c : c.id # t.id)]
                /\ tasks' = [tasks EXCEPT ![d] =
                      IF t.rest = <<>> THEN RemoveAt(@, i)
                      ELSE Append(RemoveAt(@, i), DeleteTask(t.rest))]
                /\ last' = Last("removeConnection", d, t.id)
           ELSE /\ tasks' = [tasks EXCEPT ![d] = RemoveAt(@, i)]
                /\ last' = Last("removeConnection", d, "throw")
                /\ UNCHANGED <<connStore, stateConnections>>
    /\ UNCHANGED <<connectionStage, dataVars, uiVars, rtcVars,
                   connectionState, pcs, runs, sync, idCtr, msgStore,
                   received, now, authorVars, inbound, booted, profileVars>>

\* cleanupExpiredConnections up to the await of DB.getExpiredConnections;
\* App.init calls it and does not wait for it
AppCleanup(d) ==
    /\ UserAction
    /\ Len(tasks[d]) < MaxUser
    /\ tasks' = [tasks EXCEPT ![d] = Append(@, Task("expired", 0, NULL))]
    /\ last' = Last("cleanupCall", d, "none")
    /\ UNCHANGED <<connectionStage, dataVars, uiVars, rtcVars,
                   connectionState, pcs, runs, sync, appVars, booted>>

\* DB.getExpiredConnections: the connections whose expiresOn lies before
\* the clock, by id as getAll returns them
RECURSIVE ById(_)
ById(ids) ==
    IF ids = {} THEN <<>>
    ELSE LET m == CHOOSE x \in ids : \A y \in ids : x <= y
         IN  <<m>> \o ById(ids \ {m})

\* DB.getExpiredConnections at clock t: the ids of the expired connections
getExpiredConnections(store, t) ==
    ById({ r.id : r \in { c \in store : c.expiresOn < t } })

\* cleanupExpiredConnections after the await of DB.getExpiredConnections,
\* up to the await of the first removeConnection
cleanupExpiredConnections(d, i) ==
    /\ Idle
    /\ i \in 1..Len(tasks[d])
    /\ tasks[d][i].kind = "expired"
    /\ LET expired == getExpiredConnections(connStore[d], now)
       IN  tasks' = [tasks EXCEPT ![d] =
                IF expired = <<>> THEN RemoveAt(@, i)
                ELSE Append(RemoveAt(@, i), DeleteTask(expired))]
    /\ last' = Last("cleanup", d, "none")
    /\ UNCHANGED <<connectionStage, dataVars, uiVars, rtcVars,
                   connectionState, pcs, runs, sync, appVars, booted, used,
                   session>>

\* more than a year passes
Tick ==
    /\ Idle
    /\ used.tick < MaxTicks
    /\ used' = [used EXCEPT !.tick = @ + 1]
    /\ now' = AddYear(now) + 1
    /\ UNCHANGED <<connectionStage, dataVars, uiVars, rtcVars,
                   connectionState, pcs, tasks, runs, sync, connStore,
                   stateConnections, idCtr, msgStore, received, authorVars, inbound,
                   booted, session, last, profileVars>>

\* n days pass
Days(n) ==
    /\ Idle
    /\ used.tick < MaxTicks
    /\ used' = [used EXCEPT !.tick = @ + 1]
    /\ now' = now + n * Day
    /\ UNCHANGED <<connectVars, tasks, connStore, stateConnections, idCtr,
                   msgStore, received, authorVars, inbound, booted, session,
                   last, profileVars>>

\* DB.getAllConnections: the connections by id
getAllConnections(store) ==
    LET ids == ById({ r.id : r \in store })
    IN  [k \in 1..Len(ids) |-> CHOOSE r \in store : r.id = ids[k]]

\* getAll of a store or of an index of it: the records as a list, in one
\* order
Listed(S) == CHOOSE list \in [1..Cardinality(S) -> S] : Range(list) = S

\* index.getAll(key) of the message store: an index holds the records that
\* have its field
ByIndex(store, field, key) ==
    Listed({ m \in store : field \in DOMAIN m /\ m[field] = key })

\* App.init for a user with a profile, the page being loaded over the
\* stores an earlier page has left: loadConnections, loadMessages, the
\* call of cleanupExpiredConnections that is not awaited (it runs up to
\* its await of DB.getExpiredConnections), and Connect.init
AppInit(d) ==
    /\ UserAction
    /\ ~booted[d]
    /\ tasks[d] = <<>>
    /\ stateConnections' = [stateConnections EXCEPT ![d] =
          getAllConnections(connStore[d])]
    /\ received' = [received EXCEPT ![d] =
          ByIndex(msgStore[d], "recipientId", Profile(d).did)]
    /\ sent' = [sent EXCEPT ![d] =
          ByIndex(msgStore[d], "senderId", Profile(d).did)]
    /\ stateRelays' = [stateRelays EXCEPT ![d] = Listed(relayStore[d])]
    /\ tasks' = [tasks EXCEPT ![d] = <<Task("expired", 0, NULL)>>]
    /\ booted' = [booted EXCEPT ![d] = TRUE]
    /\ isInitiator' = [isInitiator EXCEPT ![d] = FALSE]
    /\ connectionState' = [connectionState EXCEPT ![d] = "disconnected"]
    /\ connectionStage' = [connectionStage EXCEPT
          ![d] = StageAfterStateChange(@, "disconnected")]
    /\ sync' = Go(d, "generate")
    /\ last' = Last("appInit", d, "none")
    /\ UNCHANGED <<dataVars, uiVars, peerConnection, dataChannel, pcs, runs,
                   connStore, idCtr, msgStore, now, relayStore, inbound,
                   profileVars>>

\* DB.getConnectionsNearExpiration(withinDays) up to the await of
\* getAllConnections
AppNearExpiration(d, withinDays) ==
    /\ UserAction
    /\ Len(tasks[d]) < MaxUser
    /\ tasks' = [tasks EXCEPT ![d] =
          Append(@, Task("near", 0, [withinDays |-> withinDays]))]
    /\ last' = Last("nearExpirationCall", d, [withinDays |-> withinDays])
    /\ UNCHANGED <<connectVars, appVars, booted>>

\* the filter of DB.getConnectionsNearExpiration: the connections that
\* expire after the clock t read for `now` and before withinDays days after
\* the clock read for `threshold`, which is a later
NearExpiration(store, withinDays, t, a) ==
    { c \in store :
        c.expiresOn > t /\ c.expiresOn < t + a + withinDays * Day }

\* DB.getConnectionsNearExpiration after the await of getAllConnections:
\* what it resolves with; the clock advances by a between its two reads
getConnectionsNearExpiration(d, i, a) ==
    /\ Idle
    /\ i \in 1..Len(tasks[d])
    /\ tasks[d][i].kind = "near"
    /\ now' = now + a
    /\ tasks' = [tasks EXCEPT ![d] = RemoveAt(@, i)]
    /\ last' = Last("nearExpiration", d,
                    [withinDays |-> tasks[d][i].data.withinDays, at |-> now,
                     result |-> NearExpiration(connStore[d],
                                               tasks[d][i].data.withinDays,
                                               now, a)])
    /\ UNCHANGED <<connectVars, connStore, stateConnections, idCtr, msgStore,
                   received, authorVars, inbound, booted, used, session,
                   profileVars>>

\* ---------------------------------------------------------- App: messages
\* the ids of state.messages.received
ReceivedIds(rcv) == { rcv[k].id : k \in 1..Len(rcv) }

\* the loop of App.processReceivedMessages up to the first message that
\* state.messages.received.find does not find: what is left of the batch
RECURSIVE SkipKnown(_, _)
SkipKnown(messages, rcv) ==
    IF messages = <<>> THEN <<>>
    ELSE IF Head(messages).id \in ReceivedIds(rcv)
         THEN SkipKnown(Tail(messages), rcv)
         ELSE messages

\* App.processReceivedMessages: the message it saves, content decrypted
ReceivedMessage(d, message) ==
    [id |-> message.id, encrypted |-> message.encrypted,
     content |-> decryptMessage(message.encrypted, PrivateKey(d)),
     isRelay |-> FALSE]

\* the relay branch of App.processReceivedData: the message it saves
RelayMessage(d, relay) ==
    [id |-> Or(relay.id, "uuid-" \o ToString(idCtr[d] + 1)),
     encrypted |-> relay.encrypted,
     content |-> decryptMessage(relay.encrypted, PrivateKey(d)),
     isRelay |-> TRUE]

\* App.processReceivedData from `if (data.messages ...)` on, with rcv for
\* state.messages.received: the continuation behind its next await of
\* DB.saveMessage, NULL if it returns without one
NextSave(d, rcv, messages, relays) ==
    LET next == SkipKnown(messages, rcv)
    IN  IF next # <<>>
        THEN Task("saveMessage", 0,
                  [msg |-> ReceivedMessage(d, Head(next)),
                   messages |-> Tail(next), relays |-> relays])
        ELSE IF relays # <<>>
        THEN Task("saveMessage", 1,
                  [msg |-> RelayMessage(d, Head(relays)),
                   messages |-> <<>>, relays |-> Tail(relays)])
        ELSE NULL

\* the tasks of a device with the continuation t behind them, if there is
\* one
Spawn(list, t) == IF t = NULL THEN list ELSE Append(list, t)

\* App.processReceivedMessages(messages), called with a batch
processReceivedMessages(d, messages) ==
    /\ UserAction
    /\ Len(tasks[d]) < MaxUser
    /\ tasks' = [tasks EXCEPT ![d] =
          Spawn(@, NextSave(d, received[d], messages, <<>>))]
    /\ last' = Last("processReceivedMessages", d, messages)
    /\ UNCHANGED <<connectVars, appVars, booted>>

\* App.processReceivedData(data), called with messages and relays
processReceivedData(d, data) ==
    /\ UserAction
    /\ Len(tasks[d]) < MaxUser
    /\ tasks' = [tasks EXCEPT ![d] =
          Spawn(@, NextSave(d, received[d], data.messages, data.relays))]
    /\ idCtr' = [idCtr EXCEPT ![d] =
          IF data.messages = <<>> /\ data.relays # <<>>
             /\ ~Truthy(Head(data.relays).id)
          THEN @ + 1 ELSE @]
    /\ last' = Last("processReceivedData", d, data)
    /\ UNCHANGED <<connectVars, connStore, stateConnections, msgStore,
                   received, now, authorVars, inbound, booted, profileVars>>

\* DB.saveMessage (store.put): the message store after it
PutMessage(store, msg) == { m \in store : m.id # msg.id } \cup {msg}

\* App.processReceivedMessages and the relay branch of
\* App.processReceivedData after the await of DB.saveMessage: the push to
\* state.messages.received and the loop up to the next await; ok = FALSE is
\* a store failure, which the function throws on
saveMessage(d, i, ok) ==
    /\ Awaited(ok)
    /\ i \in 1..Len(tasks[d])
    /\ tasks[d][i].kind = "saveMessage"
    /\ LET t == tasks[d][i].data
           rcv == Append(received[d], t.msg)
           next == NextSave(d, rcv, t.messages, t.relays)
       IN  IF ok
           THEN /\ msgStore' = [msgStore EXCEPT ![d] = PutMessage(@, t.msg)]
                /\ received' = [received EXCEPT ![d] = rcv]
                /\ tasks' = [tasks EXCEPT ![d] = Spawn(RemoveAt(@, i), next)]
                /\ idCtr' = [idCtr EXCEPT ![d] =
                      IF next # NULL /\ next.pc = 1
                         /\ ~Truthy(Head(t.relays).id)
                      THEN @ + 1 ELSE @]
                /\ last' = Last("saveMessage", d, t.msg.id)
           ELSE /\ tasks' = [tasks EXCEPT ![d] = RemoveAt(@, i)]
                /\ last' = Last("saveMessage", d, "throw")
                /\ UNCHANGED <<msgStore, received, idCtr>>
    /\ UNCHANGED <<connectVars, connStore, stateConnections, now, authorVars, inbound,
                   booted, profileVars>>

\* ---------------------------------------------------- App: authoring
\* the longest content handleMessageSend and Messages.sendMessage accept
MaxLength == 1000

\* a text of n characters
RECURSIVE Filled(_)
Filled(n) ==
    IF n = 0 THEN ""
    ELSE IF n % 2 = 0
         THEN LET half == Filled(n \div 2) IN half \o half
         ELSE "x" \o Filled(n - 1)

\* String.prototype.trim of the value of the content field, which is a
\* body with white space around it
Trim(value) == value.body

\* the checks of handleMessageSend and Messages.sendMessage without the
\* one of the length
RejectedAnyLength(recipientId, content) ==
    recipientId = 0 \/ content = ""

\* the checks of handleMessageSend and Messages.sendMessage: no recipient
\* selected (0 is the empty selection), no content, content too long
Rejected(recipientId, content) ==
    recipientId = 0 \/ content = "" \/ Len(content) > MaxLength

\* handleMessageSend / Messages.sendMessage up to the await of
\* DB.getConnection in App.createMessage
handleMessageSend(d, form) ==
    /\ UserAction
    /\ Len(tasks[d]) < MaxUser
    /\ IF Rejected(form.recipientId, Trim(form.content))
       THEN /\ last' = Last("messageSendRejected", d, form)
            /\ UNCHANGED tasks
       ELSE /\ tasks' = [tasks EXCEPT ![d] =
                  Append(@, Task("recipient", 0,
                                 [recipientId |-> form.recipientId,
                                  content |-> Trim(form.content),
                                  isRelay |-> form.isRelay]))]
            /\ last' = Last("messageSend", d, form)
    /\ UNCHANGED <<connectVars, appVars, booted>>

\* the message object of App.createMessage
NewMessage(d, id, messageData, recipient) ==
    [id |-> id, senderId |-> Profile(d).did, recipientId |-> recipient.did,
     content |-> Text(messageData.content),
     encrypted |-> encryptMessage(Text(messageData.content),
                                  recipient.publicKey),
     status |-> "sent", isRelay |-> messageData.isRelay]

\* App.createMessage after the await of DB.getConnection, up to the await
\* of DB.saveMessage; it throws if the store fails or holds no such
\* connection
createMessage(d, i, ok) ==
    /\ Awaited(ok)
    /\ i \in 1..Len(tasks[d])
    /\ tasks[d][i].kind = "recipient"
    /\ LET t == tasks[d][i].data
           found == { r \in connStore[d] : r.id = t.recipientId }
       IN  IF ok /\ found # {}
           THEN /\ idCtr' = [idCtr EXCEPT ![d] = @ + 1]
                /\ tasks' = [tasks EXCEPT ![d] =
                      Append(RemoveAt(@, i),
                             Task("message", 0,
                                  [message |->
                                      NewMessage(d, "uuid-" \o
                                                    ToString(idCtr[d] + 1),
                                                 t, CHOOSE r \in found : TRUE),
                                   recipient |-> CHOOSE r \in found : TRUE]))]
                /\ last' = Last("createMessage", d, "none")
           ELSE /\ tasks' = [tasks EXCEPT ![d] = RemoveAt(@, i)]
                /\ last' = Last("createMessage", d, "throw")
                /\ UNCHANGED idCtr
    /\ UNCHANGED <<connectVars, connStore, stateConnections, msgStore,
                   received, now, authorVars, inbound, booted, profileVars>>

\* createRelay that addresses the relay to the sender of the message
createRelayToSender(id, message, recipient) ==
    [id |-> id, messageId |-> message.id,
     originalSenderId |-> message.senderId,
     targetRecipientId |-> message.senderId,
     encryptedContent |-> message.encrypted, status |-> "pending"]

\* createRelay that copies the content of the message
createRelayOfContent(id, message, recipient) ==
    [id |-> id, messageId |-> message.id,
     originalSenderId |-> message.senderId,
     targetRecipientId |-> recipient.did,
     encryptedContent |-> message.content, status |-> "pending"]

\* the relay object of createRelay
createRelay(id, message, recipient) ==
    [id |-> id, messageId |-> message.id,
     originalSenderId |-> message.senderId,
     targetRecipientId |-> recipient.did,
     encryptedContent |-> message.encrypted, status |-> "pending"]

\* App.createMessage after the await of DB.saveMessage: the push to
\* state.messages.sent and, for a relayed message, createRelay up to the
\* await of DB.saveRelay; ok = FALSE is a store failure, thrown on
messageSaved(d, i, ok) ==
    /\ Awaited(ok)
    /\ i \in 1..Len(tasks[d])
    /\ tasks[d][i].kind = "message"
    /\ LET t == tasks[d][i].data
       IN  IF ok
           THEN /\ msgStore' = [msgStore EXCEPT ![d] =
                      PutMessage(@, t.message)]
                /\ sent' = [sent EXCEPT ![d] = Append(@, t.message)]
                /\ IF t.message.isRelay
                   THEN /\ idCtr' = [idCtr EXCEPT ![d] = @ + 1]
                        /\ tasks' = [tasks EXCEPT ![d] =
                              Append(RemoveAt(@, i),
                                     Task("relay", 0,
                                          createRelay("uuid-" \o
                                                      ToString(idCtr[d] + 1),
                                                      t.message,
                                                      t.recipient)))]
                   ELSE /\ tasks' = [tasks EXCEPT ![d] = RemoveAt(@, i)]
                        /\ UNCHANGED idCtr
                /\ last' = Last("messageSaved", d, t.message.id)
           ELSE /\ tasks' = [tasks EXCEPT ![d] = RemoveAt(@, i)]
                /\ last' = Last("messageSaved", d, "throw")
                /\ UNCHANGED <<msgStore, sent, idCtr>>
    /\ UNCHANGED <<connectVars, connStore, stateConnections, received, now,
                   stateRelays, relayStore, inbound, booted, profileVars>>

\* DB.saveRelay (store.put): the relay store after it
PutRelay(store, relay) == { r \in store : r.id # relay.id } \cup {relay}

\* createRelay after the await of DB.saveRelay: the push to
\* state.messages.relays, and the return of App.createMessage
relaySaved(d, i, ok) ==
    /\ Awaited(ok)
    /\ i \in 1..Len(tasks[d])
    /\ tasks[d][i].kind = "relay"
    /\ tasks' = [tasks EXCEPT ![d] = RemoveAt(@, i)]
    /\ LET relay == tasks[d][i].data
       IN  IF ok
           THEN /\ relayStore' = [relayStore EXCEPT ![d] = PutRelay(@, relay)]
                /\ stateRelays' = [stateRelays EXCEPT ![d] = Append(@, relay)]
                /\ last' = Last("relaySaved", d, relay.id)
           ELSE /\ last' = Last("relaySaved", d, "throw")
                /\ UNCHANGED <<relayStore, stateRelays>>
    /\ UNCHANGED <<connectVars, connStore, stateConnections, idCtr, msgStore,
                   received, now, sent, inbound, booted, profileVars>>

\* ----------------------------------------------------------- App: profile
\* Crypto.createIdentity(): a did from uuid.v4 and a key pair from the
\* random string, both named by what was drawn; created is the clock
createIdentity(random, t) ==
    [did |-> "did:cc:" \o random,
     publicKey |-> generateKeyPair("sk-" \o random).publicKey,
     privateKey |-> generateKeyPair("sk-" \o random).privateKey,
     created |-> t]

\* Crypto.exportIdentity: JSON.stringify, then AES under SALT + password
exportIdentity(identity, password) ==
    encryptMessage([type |-> "json", of |-> identity],
                   "CurrentCircle_v1_" \o password)

\* Crypto.importIdentity that decrypts under the password without SALT
importIdentityNoSalt(encryptedIdentity, password) ==
    LET decrypted == decryptMessage(encryptedIdentity, password)
    IN  IF decrypted.type = "json" THEN decrypted.of ELSE NULL

\* Crypto.importIdentity that takes the plaintext whatever the passphrase
importIdentityAnyKey(encryptedIdentity, password) ==
    IF encryptedIdentity.type = "aes" /\ encryptedIdentity.text.type = "json"
    THEN encryptedIdentity.text.of
    ELSE NULL

\* Crypto.importIdentity: AES under SALT + password, then JSON.parse; what
\* is not the JSON text of an export throws into the catch block, which
\* returns null
importIdentity(encryptedIdentity, password) ==
    LET decrypted ==
            decryptMessage(encryptedIdentity, "CurrentCircle_v1_" \o password)
    IN  IF decrypted.type = "json" THEN decrypted.of ELSE NULL

\* DB.getProfile: the first record getAll returns, null if there is none.
\* The records come in the order of their ids, which uuid.v4 drew: with
\* more than one, any of them can be the first
getProfile(store) == IF store = {} THEN {NULL} ELSE store

\* App.createProfile up to the await of DB.saveProfile.  The setup screen
\* with its button is shown until a profile has been created
createProfile(d, profileData) ==
    /\ UserAction
    /\ Len(tasks[d]) < MaxUser
    /\ stateProfile[d] = NULL
    /\ LET random == "uuid-" \o ToString(idCtr[d] + 1)
           identity == createIdentity(random, now)
           profile ==
               [id |-> random, firstName |-> profileData.firstName,
                lastName |-> profileData.lastName,
                nickname |-> profileData.nickname, bio |-> profileData.bio,
                profilePicture |-> profileData.profilePicture,
                identity |-> identity, created |-> now, updated |-> now]
       IN  tasks' = [tasks EXCEPT ![d] =
              Append(@, Task("created", 0,
                             [profile |-> profile, identity |-> identity]))]
    /\ idCtr' = [idCtr EXCEPT ![d] = @ + 1]
    /\ last' = Last("createProfile", d, profileData)
    /\ UNCHANGED <<connectVars, connStore, stateConnections, msgStore,
                   received, now, authorVars, inbound, booted, profileVars>>

\* App.createProfile after the await of DB.saveProfile (store.put under
\* the key path id); it throws if the store fails
profileCreated(d, i, ok) ==
    /\ Awaited(ok)
    /\ i \in 1..Len(tasks[d])
    /\ tasks[d][i].kind = "created"
    /\ tasks' = [tasks EXCEPT ![d] = RemoveAt(@, i)]
    /\ LET t == tasks[d][i].data
       IN  IF ok
           THEN /\ profileStore' = [profileStore EXCEPT ![d] =
                      { r \in @ : r.id # t.profile.id } \cup {t.profile}]
                /\ stateProfile' = [stateProfile EXCEPT ![d] = t.profile]
                /\ stateIdentity' = [stateIdentity EXCEPT ![d] = t.identity]
           ELSE UNCHANGED profileVars
    /\ UNCHANGED <<connectVars, connStore, stateConnections, idCtr, msgStore,
                   received, now, authorVars, inbound, booted, last>>

\* App.updateProfile that gives the profile it saves a new identity
updateProfileNewIdentity(d, profileData) ==
    /\ UserAction
    /\ Len(tasks[d]) < MaxUser
    /\ LET currentProfile == stateProfile[d]
           given == [firstName |-> profileData.firstName,
                     lastName |-> profileData.lastName,
                     nickname |-> profileData.nickname,
                     bio |-> profileData.bio,
                     profilePicture |-> profileData.profilePicture,
                     updated |-> now]
           updatedProfile ==
               IF currentProfile = NULL THEN given
               ELSE [currentProfile EXCEPT
                       !.firstName = Or(profileData.firstName, @),
                       !.lastName = Or(profileData.lastName, @),
                       !.nickname = Or(profileData.nickname, @),
                       !.bio = Or(profileData.bio, @),
                       !.profilePicture = Or(profileData.profilePicture, @),
                       !.identity = createIdentity("uuid-0", now),
                       !.updated = now]
       IN  IF /\ currentProfile = NULL
              /\ \E f \in DOMAIN profileData : ~Truthy(profileData[f])
           THEN /\ last' = Last("updateProfileThrow", d, profileData)
                /\ UNCHANGED tasks
           ELSE /\ tasks' = [tasks EXCEPT ![d] =
                      Append(@, Task("updated", 0,
                                     [profile |-> updatedProfile]))]
                /\ last' = Last("updateProfile", d, profileData)
    /\ UNCHANGED <<connectVars, connStore, stateConnections, idCtr, msgStore,
                   received, now, authorVars, inbound, booted, profileVars>>

\* App.updateProfile up to the await of DB.saveProfile.  Without a profile
\* in state.profile the spread of null gives no field, and the first
\* field of profileData that is empty makes it read a field of null, which
\* throws
updateProfile(d, profileData) ==
    /\ UserAction
    /\ Len(tasks[d]) < MaxUser
    /\ LET currentProfile == stateProfile[d]
           given == [firstName |-> profileData.firstName,
                     lastName |-> profileData.lastName,
                     nickname |-> profileData.nickname,
                     bio |-> profileData.bio,
                     profilePicture |-> profileData.profilePicture,
                     updated |-> now]
           updatedProfile ==
               IF currentProfile = NULL THEN given
               ELSE [currentProfile EXCEPT
                       !.firstName = Or(profileData.firstName, @),
                       !.lastName = Or(profileData.lastName, @),
                       !.nickname = Or(profileData.nickname, @),
                       !.bio = Or(profileData.bio, @),
                       !.profilePicture = Or(profileData.profilePicture, @),
                       !.updated = now]
       IN  IF /\ currentProfile = NULL
              /\ \E f \in DOMAIN profileData : ~Truthy(profileData[f])
           THEN /\ last' = Last("updateProfileThrow", d, profileData)
                /\ UNCHANGED tasks
           ELSE /\ tasks' = [tasks EXCEPT ![d] =
                      Append(@, Task("updated", 0,
                                     [profile |-> updatedProfile]))]
                /\ last' = Last("updateProfile", d, profileData)
    /\ UNCHANGED <<connectVars, connStore, stateConnections, idCtr, msgStore,
                   received, now, authorVars, inbound, booted, profileVars>>

\* App.updateProfile after the await of DB.saveProfile; store.put rejects
\* a record without the key path id, and the function throws
profileUpdated(d, i, ok) ==
    /\ Awaited(ok)
    /\ i \in 1..Len(tasks[d])
    /\ tasks[d][i].kind = "updated"
    /\ tasks' = [tasks EXCEPT ![d] = RemoveAt(@, i)]
    /\ LET t == tasks[d][i].data
       IN  IF ok /\ "id" \in DOMAIN t.profile
           THEN /\ profileStore' = [profileStore EXCEPT ![d] =
                      { r \in @ : r.id # t.profile.id } \cup {t.profile}]
                /\ stateProfile' = [stateProfile EXCEPT ![d] = t.profile]
                /\ UNCHANGED stateIdentity
           ELSE UNCHANGED profileVars
    /\ UNCHANGED <<connectVars, connStore, stateConnections, idCtr, msgStore,
                   received, now, authorVars, inbound, booted, last>>

\* App.importIdentity up to the await of DB.getProfile; it throws
\* 'Invalid identity or password' if Crypto.importIdentity gives null
AppImportIdentity(d, encryptedIdentity, password) ==
    /\ UserAction
    /\ Len(tasks[d]) < MaxUser
    /\ LET identity == importIdentity(encryptedIdentity, password)
           arg == [encryptedIdentity |-> encryptedIdentity,
                   password |-> password]
       IN  IF identity = NULL
           THEN /\ last' = Last("importIdentityThrow", d, arg)
                /\ UNCHANGED tasks
           ELSE /\ tasks' = [tasks EXCEPT ![d] =
                      Append(@, Task("import", 0, [identity |-> identity]))]
                /\ last' = Last("importIdentity", d, arg)
    /\ UNCHANGED <<connectVars, connStore, stateConnections, idCtr, msgStore,
                   received, now, authorVars, inbound, booted, profileVars>>

\* App.importIdentity after the await of DB.getProfile, up to the await of
\* DB.saveProfile: the profile of the store with the identity replaced, or
\* a minimal profile with a new id
importProfile(d, i, ok) ==
    /\ Awaited(ok)
    /\ i \in 1..Len(tasks[d])
    /\ tasks[d][i].kind = "import"
    /\ IF ok
       THEN \E found \in getProfile(profileStore[d]) :
              LET identity == tasks[d][i].data.identity
                  profile ==
                      IF found # NULL
                      THEN [found EXCEPT !.identity = identity,
                                         !.updated = now]
                      ELSE [id |-> "uuid-" \o ToString(idCtr[d] + 1),
                            firstName |-> "Imported", lastName |-> "User",
                            nickname |-> "", bio |-> "",
                            profilePicture |-> "null",
                            identity |-> identity, created |-> now,
                            updated |-> now]
              IN  /\ tasks' = [tasks EXCEPT ![d] =
                        Append(RemoveAt(@, i),
                               Task("imported", 0,
                                    [profile |-> profile,
                                     identity |-> identity]))]
                  /\ idCtr' = [idCtr EXCEPT ![d] =
                        IF found # NULL THEN @ ELSE @ + 1]
       ELSE /\ tasks' = [tasks EXCEPT ![d] = RemoveAt(@, i)]
            /\ UNCHANGED idCtr
    /\ UNCHANGED <<connectVars, connStore, stateConnections, msgStore,
                   received, now, authorVars, inbound, booted, last,
                   profileVars>>

\* App.importIdentity after the await of DB.saveProfile
identityImported(d, i, ok) ==
    /\ Awaited(ok)
    /\ i \in 1..Len(tasks[d])
    /\ tasks[d][i].kind = "imported"
    /\ tasks' = [tasks EXCEPT ![d] = RemoveAt(@, i)]
    /\ LET t == tasks[d][i].data
       IN  IF ok
           THEN /\ profileStore' = [profileStore EXCEPT ![d] =
                      { r \in @ : r.id # t.profile.id } \cup {t.profile}]
                /\ stateProfile' = [stateProfile EXCEPT ![d] = t.profile]
                /\ stateIdentity' = [stateIdentity EXCEPT ![d] = t.identity]
           ELSE UNCHANGED profileVars
    /\ UNCHANGED <<connectVars, connStore, stateConnections, idCtr, msgStore,
                   received, now, authorVars, inbound, booted, last>>

\* channel.onmessage for a message of the peer that arrives on the open
\* channel end of <<d, n>>, whatever the peer sent: it is parsed and waits
\* for handleDataReceived.  The message has left the peer on one of its
\* timers, half a second after the one before, which has been handled
onmessage(d, n, msg) ==
    /\ Idle
    /\ n \in 1..Len(pcs[d])
    /\ pcs[d][n].chan = "open"
    /\ pcs[d][n].inbox = << >>
    /\ used.timer < MaxTimers
    /\ used' = [used EXCEPT !.timer = @ + 1]
    /\ pcs' = [pcs EXCEPT ![d][n].inbox = Append(@, msg)]
    /\ UNCHANGED <<connectionStage, dataVars, uiVars, rtcVars,
                   connectionState, tasks, runs, sync, appVars, booted,
                   session, last>>

\* ------------------------------------------------------------------ Next
\* tasks a device can have pending at once
MaxTasks == MaxUser + 2

\* the steps of the program itself, whatever the environment does
Internal ==
    \/ \E d \in Devices : ConnectInit(d)
    \/ \E d \in Devices : InitGenerateQRCode(d)
    \/ \E d \in Devices : resetConnectionState(d)
    \/ \E d \in Devices : closeConnection(d)
    \/ \E d \in Devices : handleDataExchange(d)
    \/ \E d \in Devices, n \in 1..MaxPC : PcConnected(d, n)
    \/ \E d \in Devices, n \in 1..MaxPC : ChannelOpen(d, n)
    \/ \E d \in Devices, n \in 1..MaxPC, own \in BOOLEAN : PcLost(d, n, own)
    \/ \E d \in Devices, n \in 1..MaxPC, e \in BOOLEAN :
          ChannelClosed(d, n, e)
    \/ \E d \in Devices, n \in 1..MaxPC : ChannelError(d, n)
    \/ \E d \in Devices, n \in 1..MaxPC : handleDataReceived(d, n)

\* the timers of the data exchange and the commit that follows it
Exchange(oks, lates) ==
    \/ \E d \in Devices : ExchangeStep(d)
    \/ \E d \in Devices, i \in 1..MaxTasks, a \in lates, b \in lates :
          a + b <= 1 /\ addConnection(d, i, a, b)
    \/ \E d \in Devices, i \in 1..MaxTasks, ok \in oks :
          completeConnection(d, i, ok)

\* the awaited browser operations of the handshake
Awaits(oks) ==
    \/ \E d \in Devices, i \in 1..MaxTasks, ok \in oks :
          OfferReady(d, i, ok)
    \/ \E d \in Devices, i \in 1..MaxTasks, ok \in oks :
          CameraReady(d, i, ok)
    \/ \E d \in Devices, i \in 1..MaxTasks, ok \in oks :
          CompleteReady(d, i, ok)
    \/ \E d \in Devices, i \in 1..MaxTasks, ok \in oks :
          AnswerReady(d, i, ok)

\* the user of d may act: always (patient = FALSE), or only when no awaited
\* operation of the device is outstanding
MayAct(d, patient) == patient => tasks[d] = <<>>

Next ==
    \/ Internal
    \/ Exchange(BOOLEAN, {0})
    \/ Awaits(BOOLEAN)
    \/ \E d \in Devices : AnswerThrow(d)
    \/ \E d \in Devices : UserGenerateQRCode(d)
    \/ \E d \in Devices : startScanner(d)
    \/ \E d \in Devices : \E data \in Scannable(d) :
          processScannedCode(d, data)
    \/ \E d \in Devices, c \in BOOLEAN : handleConnectionConfirmation(d, c)

Spec == Init /\ [][Next]_vars

\* The handshake alone, up to the first timer of the data exchange, with
\* users who wait for their device.
NextConnect ==
    \/ Internal
    \/ Awaits(BOOLEAN)
    \/ \E d \in Devices : AnswerThrow(d)
    \/ \E d \in Devices : MayAct(d, TRUE) /\ UserGenerateQRCode(d)
    \/ \E d \in Devices : MayAct(d, TRUE) /\ startScanner(d)
    \/ \E d \in Devices : \E data \in Scannable(d) :
          processScannedCode(d, data)
    \/ \E d \in Devices, c \in BOOLEAN :
          MayAct(d, TRUE) /\ handleConnectionConfirmation(d, c)

SpecConnect == Init /\ [][NextConnect]_vars

\* the codes of one pairing: B scans what A displays, and A, while it has
\* a peer connection, the answers that B displays
SessionCodes(d) ==
    IF d = "A"
    THEN { c \in Displayed("B") :
             c.type = "connection_answer" /\ peerConnection["A"] # 0 }
    ELSE Displayed("A")

\* the user of d leaves the device alone while it exchanges data
Settled(d) == MayAct(d, TRUE) /\ runs[d] = <<>>

\* One pairing of A (who shows the offer) with B (who scans it), through
\* the data exchange and the commit: the users wait for their devices and
\* the awaited operations succeed, the transport may fail.
NextSession ==
    \/ Internal
    \/ Exchange({TRUE}, {0})
    \/ Awaits({TRUE})
    \/ \E d \in Devices : Settled(d) /\ startScanner(d)
    \/ \E d \in Devices : \E data \in SessionCodes(d) :
          processScannedCode(d, data)
    \/ \E d \in Devices, c \in BOOLEAN :
          Settled(d) /\ handleConnectionConfirmation(d, c)

SpecSession == Init /\ [][NextSession]_vars

\* A handler that is running runs to its end, and the promise of
\* setRemoteDescription settles.
Continue ==
    \/ \E d \in Devices : InitGenerateQRCode(d)
    \/ \E d \in Devices : AnswerThrow(d)
    \/ \E d \in Devices : resetConnectionState(d)
    \/ \E d \in Devices : closeConnection(d)
    \/ \E d \in Devices : handleDataExchange(d)

Settle ==
    \E d \in Devices, i \in 1..MaxTasks, ok \in BOOLEAN : CompleteReady(d, i, ok)

SpecConnectFair ==
    SpecConnect /\ WF_vars(Continue) /\ WF_vars(Settle)

\* ----------------------------------------------------------- App alone
\* the installation whose App operations are called
AppDevice == "A"

\* arguments of App.addConnection for a peer P: with every field, with one
\* half of the fields and with the other half
ConnectionInputs ==
    { [did |-> "did:cc:P", publicKey |-> "pk1", firstName |-> "first1",
       lastName |-> "last1", nickname |-> "nick1", bio |-> "bio1",
       profilePicture |-> "pic1"],
      [did |-> "did:cc:P", publicKey |-> "", firstName |-> "first2",
       lastName |-> "", nickname |-> "nick2", bio |-> "",
       profilePicture |-> "pic2"],
      [did |-> "did:cc:P", publicKey |-> "pk3", firstName |-> "",
       lastName |-> "last3", nickname |-> "", bio |-> "bio3",
       profilePicture |-> "null"] }

\* arguments of App.addConnection for two peers
PeerInputs ==
    { [did |-> "did:cc:P", publicKey |-> "pkP", firstName |-> "firstP",
       lastName |-> "lastP", nickname |-> "", bio |-> "",
       profilePicture |-> "null"],
      [did |-> "did:cc:Q", publicKey |-> "pkQ", firstName |-> "firstQ",
       lastName |-> "lastQ", nickname |-> "", bio |-> "",
       profilePicture |-> "null"] }

\* inbound items: one whose ciphertext the private key of d opens, one
\* encrypted for somebody else
Items(d) ==
    [good |-> [id |-> "m1",
               encrypted |-> encryptMessage(Text("one"), PrivateKey(d))],
     bad |-> [id |-> "m2", encrypted |-> encryptMessage(Text("two"), "skX")]]

\* batches of inbound messages, and of inbound relays
Batches(d) ==
    { <<Items(d).good>>, <<Items(d).bad, Items(d).good>>,
      <<Items(d).good, Items(d).good>> }

\* arguments of App.processReceivedData
DataInputs(d) ==
    { [messages |-> <<>>, relays |-> b] : b \in Batches(d) }
    \cup { [messages |-> <<Items(d).good>>, relays |-> <<Items(d).bad>>] }

\* App.addConnection called again and again, each call after the one before
\* has returned, while the clock runs
NextAppMerge ==
    \/ \E d \in Devices : resetConnectionState(d)
    \/ \E d \in Devices : closeConnection(d)
    \/ \E args \in ConnectionInputs :
          MayAct(AppDevice, TRUE) /\ AppAddConnection(AppDevice, args)
    \/ \E i \in 1..MaxTasks, a \in {0, 1}, b \in {0, 1} :
          a + b <= 1 /\ addConnection(AppDevice, i, a, b)
    \/ \E i \in 1..MaxTasks, ok \in BOOLEAN :
          completeConnection(AppDevice, i, ok)
    \/ Tick

SpecAppMerge == Init /\ [][NextAppMerge]_vars

\* the connection operations of App for two peers, called in any order and
\* before earlier calls have returned
NextAppStore ==
    \/ \E d \in Devices : resetConnectionState(d)
    \/ \E d \in Devices : closeConnection(d)
    \/ \E args \in PeerInputs : AppAddConnection(AppDevice, args)
    \/ \E i \in 1..MaxTasks : addConnection(AppDevice, i, 0, 0)
    \/ \E i \in 1..MaxTasks, ok \in BOOLEAN :
          completeConnection(AppDevice, i, ok)
    \/ \E k \in 1..MaxTasks : AppRemoveConnection(AppDevice, k)
    \/ \E i \in 1..MaxTasks, ok \in BOOLEAN :
          removeConnection(AppDevice, i, ok)
    \/ AppCleanup(AppDevice)
    \/ \E i \in 1..MaxTasks : cleanupExpiredConnections(AppDevice, i)
    \/ Tick

SpecAppStore == Init /\ [][NextAppStore]_vars

\* the message operations of App, called in any order
NextAppMessages ==
    \/ \E messages \in Batches(AppDevice) :
          processReceivedMessages(AppDevice, messages)
    \/ \E data \in DataInputs(AppDevice) :
          processReceivedData(AppDevice, data)
    \/ \E i \in 1..MaxTasks, ok \in BOOLEAN : saveMessage(AppDevice, i, ok)

SpecAppMessages == Init /\ [][NextAppMessages]_vars

\* the connection App.addConnection is called with after a session with
\* the other device
PeerConnection(d) == CommitArgs(OfferData(Other(d)))

\* values of the content field of the compose form: empty, white space
\* only, short, of the greatest length with white space around it, and
\* one character longer
ContentInputs ==
    { [pad |-> 0, body |-> ""], [pad |-> 2, body |-> ""],
      [pad |-> 0, body |-> "hi"], [pad |-> 2, body |-> Filled(MaxLength)],
      [pad |-> 0, body |-> Filled(MaxLength + 1)] }

\* the compose form as submitted: no recipient or a connection id, a
\* content, the relay box
FormInputs ==
    [recipientId : 0..2, content : ContentInputs, isRelay : BOOLEAN]

\* the messages of d addressed to the device e
Outbox(d, e) == { m \in Range(sent[d]) : m.recipientId = Profile(e).did }

\* authoring on one device, with the connection operations around it (a
\* connection is added and the cleanup pass started when nothing else is
\* pending), and the delivery of its messages to the other device
NextAppAuthor ==
    \/ \E d \in Devices : resetConnectionState(d)
    \/ \E d \in Devices : closeConnection(d)
    \/ /\ MayAct(AppDevice, TRUE)
       /\ AppAddConnection(AppDevice, PeerConnection(AppDevice))
    \/ \E i \in 1..MaxTasks : addConnection(AppDevice, i, 0, 0)
    \/ \E i \in 1..MaxTasks, ok \in BOOLEAN :
          completeConnection(AppDevice, i, ok)
    \/ \E k \in 1..MaxTasks : AppRemoveConnection(AppDevice, k)
    \/ \E i \in 1..MaxTasks, ok \in BOOLEAN :
          removeConnection(AppDevice, i, ok)
    \/ MayAct(AppDevice, TRUE) /\ AppCleanup(AppDevice)
    \/ \E i \in 1..MaxTasks : cleanupExpiredConnections(AppDevice, i)
    \/ Tick
    \/ \E form \in FormInputs : handleMessageSend(AppDevice, form)
    \/ \E i \in 1..MaxTasks, ok \in BOOLEAN : createMessage(AppDevice, i, ok)
    \/ \E i \in 1..MaxTasks, ok \in BOOLEAN : messageSaved(AppDevice, i, ok)
    \/ \E i \in 1..MaxTasks, ok \in BOOLEAN : relaySaved(AppDevice, i, ok)
    \/ \E m \in Outbox(AppDevice, Other(AppDevice)) :
          processReceivedMessages(Other(AppDevice), <<m>>)
    \/ \E i \in 1..MaxTasks : saveMessage(Other(AppDevice), i, TRUE)

SpecAppAuthor == Init /\ [][NextAppAuthor]_vars

\* windows of getConnectionsNearExpiration
Windows == {10, 30}

\* days after which a connection made at the start has 30 and 10 days left
Spans == {335, 355}

\* a page that is loaded after connections were stored and time has passed:
\* startup with its cleanup, and the query for the connections near
\* expiration
NextAppExpiry ==
    \/ \E d \in Devices : resetConnectionState(d)
    \/ \E d \in Devices : closeConnection(d)
    \/ \E args \in PeerInputs :
          MayAct(AppDevice, TRUE) /\ AppAddConnection(AppDevice, args)
    \/ \E i \in 1..MaxTasks : addConnection(AppDevice, i, 0, 0)
    \/ \E i \in 1..MaxTasks : completeConnection(AppDevice, i, TRUE)
    \/ Tick
    \/ \E n \in Spans : Days(n)
    \/ AppInit(AppDevice)
    \/ InitGenerateQRCode(AppDevice)
    \/ \E i \in 1..MaxTasks : OfferReady(AppDevice, i, TRUE)
    \/ \E i \in 1..MaxTasks : cleanupExpiredConnections(AppDevice, i)
    \/ \E i \in 1..MaxTasks, ok \in BOOLEAN :
          removeConnection(AppDevice, i, ok)
    \/ \E w \in Windows : AppNearExpiration(AppDevice, w)
    \/ \E i \in 1..MaxTasks, a \in {0, 1} :
          getConnectionsNearExpiration(AppDevice, i, a)

SpecAppExpiry == Init /\ [][NextAppExpiry]_vars

\* the profile operations of one installation, new or with a profile:
\* the setup form, the edit of the profile, and the import of what
\* App.exportIdentity shows for the identity of the installation, or of
\* what another installation exported, or of something typed, under the
\* passphrase of the export or under another
SpecAppProfile ==
    /\ Init \/ InitSetup
    /\ [][
        \/ Tick
        \/ \E profileData \in
               { [firstName |-> "Carol", lastName |-> "Cole", nickname |-> "cc",
                  bio |-> "", profilePicture |-> "null"] } :
              createProfile(AppDevice, profileData)
        \/ \E i \in 1..MaxTasks, ok \in BOOLEAN : profileCreated(AppDevice, i, ok)
        \/ \E profileData \in
               { [firstName |-> "Dora", lastName |-> "", nickname |-> "",
                  bio |-> "new bio", profilePicture |-> "null"],
                 [firstName |-> "Eve", lastName |-> "East", nickname |-> "e",
                  bio |-> "bio of E", profilePicture |-> "picture of E"] } :
              updateProfile(AppDevice, profileData)
        \/ \E i \in 1..MaxTasks, ok \in BOOLEAN : profileUpdated(AppDevice, i, ok)
        \/ \E identity \in {stateIdentity[AppDevice], createIdentity("uuid-x", 0)},
              p \in {"CurrentCircle", "secret"}, q \in {"CurrentCircle", "secret"} :
              AppImportIdentity(AppDevice, exportIdentity(identity, p), q)
        \/ AppImportIdentity(AppDevice, [type |-> "text"], "CurrentCircle")
        \/ \E i \in 1..MaxTasks, ok \in BOOLEAN : importProfile(AppDevice, i, ok)
        \/ \E i \in 1..MaxTasks, ok \in BOOLEAN :
              identityImported(AppDevice, i, ok)
       ]_vars

\* One pairing as in SpecSession up to the first send of the data
\* exchange, and what the receiver does with the messages of a peer that
\* all arrive: besides its `profile`, its `connections` message, its empty
\* `messages` and `relays` messages, acknowledgements, and the `complete`
\* of each run of its handleDataExchange; then the commit.  The transport
\* and the store do not fail
SpecReceive ==
    /\ Init
    /\ [][\/ \E d \in Devices : ConnectInit(d)
          \/ \E d \in Devices : InitGenerateQRCode(d)
          \/ \E d \in Devices : resetConnectionState(d)
          \/ \E d \in Devices : closeConnection(d)
          \/ \E d \in Devices : handleDataExchange(d)
          \/ \E d \in Devices, n \in 1..MaxPC : PcConnected(d, n)
          \/ \E d \in Devices, n \in 1..MaxPC : ChannelOpen(d, n)
          \/ \E d \in Devices, n \in 1..MaxPC : handleDataReceived(d, n)
          \/ Awaits({TRUE})
          \/ \E d \in Devices : Settled(d) /\ startScanner(d)
          \/ \E d \in Devices : \E data \in SessionCodes(d) :
                processScannedCode(d, data)
          \/ \E d \in Devices, c \in BOOLEAN :
                Settled(d) /\ handleConnectionConfirmation(d, c)
          \/ \E n \in 1..MaxPC :
                \E msg \in
                   { Message("connections", NULL,
                             sendConnectionsData(<<PeerConnection("A")>>), 1),
                     Message("messages", NULL, {}, 0),
                     Message("relays", NULL, {}, 0),
                     Message("profile_ack", NULL, {}, 0),
                     Message("complete", NULL, {}, 0) } :
                   onmessage(AppDevice, n, msg)
          \/ \E i \in 1..MaxTasks : addConnection(AppDevice, i, 0, 0)
          \/ \E i \in 1..MaxTasks : completeConnection(AppDevice, i, TRUE)
       ]_vars

\* ---------------------------------------------------------------- claims
\* C1: when a device that holds offer data (its own offer, for the offerer)
\* processes a scanned connection_answer whose did differs from the did of
\* that data, the stage becomes FAILED, nothing is handed to
\* WebRTC.completeConnection (no continuation waits, no peer connection
\* changes, no remote description is kept), so no CONNECTED follows from
\* that answer.
C1_MismatchFails ==
    [][\A d \in Devices :
          (/\ scannerActive[d] /\ ~scannerActive'[d]
           /\ last'.arg.type = "connection_answer"
           /\ connectionData[d] # NULL
           /\ last'.arg.did # connectionData[d].did)
          => /\ connectionStage'[d] = STAGES.FAILED
             /\ tasks' = tasks
             /\ pcs' = pcs
             /\ remoteDescription' = remoteDescription
             /\ sync' = NoSync]_vars

\* the offerer has just scanned an answer made for another did
C1_Witness ==
    /\ last.op = "scan"
    /\ last.arg.type = "connection_answer"
    /\ \E d \in Devices :
          /\ last.dev = d
          /\ connectionData[d] # NULL
          /\ connectionData[d].did = Profile(d).did
          /\ last.arg.did # Profile(d).did
          /\ connectionStage[d] = STAGES.FAILED
          /\ \A i \in 1..Len(tasks[d]) : tasks[d][i].kind # "complete"

\* C2: once the offerer has processed the answer made from its current
\* offer (the DID check passed and WebRTC.completeConnection is awaited),
\* it reaches CONNECTED, unless setRemoteDescription fails.
C2_ReachesConnected ==
    \A d \in Devices :
        (\E i \in 1..Len(tasks[d]) :
            /\ tasks[d][i].kind = "complete"
            /\ tasks[d][i].pc = peerConnection[d]
            /\ tasks[d][i].data.type = "answer"
            /\ tasks[d][i].data.dev = Other(d)
            /\ tasks[d][i].data.pc \in 1..Len(pcs[Other(d)])
            /\ pcs[Other(d)][tasks[d][i].data.pc].remote =
                  Description("offer", d, peerConnection[d]))
        ~> (\/ connectionStage[d] = STAGES.CONNECTED
            \/ last = Last("completeReady", d, "throw"))

\* the offerer is CONNECTED by the answer made from its offer
C2_Witness ==
    \E d \in Devices :
        /\ last = Last("completeReady", d, "ok")
        /\ connectionStage[d] = STAGES.CONNECTED
        /\ peerConnection[d] # 0
        /\ PeerOf(pcs, d, peerConnection[d])[2] # 0

\* C3: a device that has committed in a session without failure or
\* interference holds exactly one Connection, and it carries the did and
\* the firstName of the peer.
C3_PeerRecord ==
    \A d \in Devices :
        (session = "open" /\ connStore[d] # {})
        => \E r \in connStore[d] :
              /\ connStore[d] = {r}
              /\ r.did = Profile(Other(d)).did
              /\ r.firstName = Profile(Other(d)).firstName

\* C4: in a session whose channel opened and whose transport did not fail,
\* no device closes its end of the channel before it has sent its own
\* `complete`: the peer could never receive it.
C4_CompleteBeforeClose ==
    session = "open"
    => \A d \in Devices : \A n \in 1..Len(pcs[d]) :
          (pcs[d][n].opened /\ pcs[d][n].chan \in {"closing", "closed"})
          => pcs[d][n].completeSent

\* C5: when the handler of a declined confirmation has run, the stage is
\* INIT and connectionData, remoteDescription and localDescription are
\* discarded.
C5_DeclineEndsInInit ==
    \A d \in Devices :
        (last = Last("confirmation", d, "no") /\ sync = NoSync)
        => /\ connectionStage[d] = STAGES.INIT
           /\ connectionData[d] = NULL
           /\ remoteDescription[d] = NULL
           /\ localDescription[d] = NULL

\* C6: when completeConnection has finished, with the record stored or with
\* a store failure, the stage is INIT.
C6_CommitEndsInInit ==
    \A d \in Devices :
        (last.op = "completeConnection" /\ last.dev = d /\ sync = NoSync)
        => connectionStage[d] = STAGES.INIT

\* C7: from FAILED and from COMPLETE no step moves the stage to anything
\* but INIT.
C7_Terminal ==
    [][\A d \in Devices :
          connectionStage[d] \in {STAGES.FAILED, STAGES.COMPLETE}
          => connectionStage'[d] \in {connectionStage[d], STAGES.INIT}]_vars

\* C8: no stage is left backwards: EXCHANGING never goes back to CONNECTED.
C8_NoStepBack ==
    [][\A d \in Devices :
          ~(/\ connectionStage[d] = STAGES.EXCHANGING
            /\ connectionStage'[d] = STAGES.CONNECTED)]_vars

\* C9: a report of 'disconnected' or 'failed' (from the transport, from
\* WebRTC.closeConnection or from WebRTC.init) sets the stage to FAILED
\* when it is not COMPLETE, and leaves COMPLETE as it is.
C9_LostTransport ==
    [][\A d \in Devices :
          (\/ /\ last'.op = "stateChange"
              /\ last'.dev = d
              /\ last'.arg \in {"disconnected", "failed"}
           \/ sync = Go(d, "close")
           \/ ~booted[d] /\ booted'[d])
          => connectionStage'[d] =
                IF connectionStage[d] = STAGES.COMPLETE
                THEN STAGES.COMPLETE ELSE STAGES.FAILED]_vars

\* the transport was reported lost to a device whose stage is COMPLETE
C9_Witness ==
    /\ last.op = "stateChange"
    /\ last.arg \in {"disconnected", "failed"}
    /\ \E d \in Devices :
          last.dev = d /\ connectionStage[d] = STAGES.COMPLETE

\* C10: between handlers a device has at most one peer connection that is
\* not closed.
C10_OnePeerConnection ==
    \A d \in Devices :
        sync = NoSync
        => Cardinality({ n \in 1..Len(pcs[d]) : ~pcs[d][n].closed }) <= 1

\* C11: a sender emits its messages in the order profile, connections,
\* messages, relays, complete: of two messages that a device hands one after
\* the other to its open channel, the second is not of an earlier step than
\* the first.
C11_SendOrder ==
    [][\A d \in Devices :
          (/\ last.op = "exchangeStep" /\ last.dev = d
           /\ last'.op = "exchangeStep" /\ last'.dev = d
           /\ sendDataOk(pcs, d, dataChannel[d]))
          => (CHOOSE k \in 1..5 : ExchangeMessage(d, k).type = last'.arg)
             >= (CHOOSE k \in 1..5 : ExchangeMessage(d, k).type = last.arg)]_vars

\* C12: the `relays` message a device hands to the open channel of an
\* undisturbed session carries exactly the relays it holds whose
\* targetRecipientId is the did of the peer.
C12_RelaysForPeer ==
    \A d \in Devices :
        (/\ session = "open"
         /\ last = Last("exchangeStep", d, "relays")
         /\ sendDataOk(pcs, d, dataChannel[d]))
        => ExchangeMessage(d, 4).items =
              { r \in AppMessages(d).relays :
                  r.targetRecipientId = Profile(Other(d)).did }

\* C13: the `messages` message a device hands to the open channel of an
\* undisturbed session carries exactly the messages it has stored for the
\* did of the peer.
C13_MessagesForPeer ==
    \A d \in Devices :
        (/\ session = "open"
         /\ last = Last("exchangeStep", d, "messages")
         /\ sendDataOk(pcs, d, dataChannel[d]))
        => ExchangeMessage(d, 3).items =
              { m \in AppMessages(d).sent :
                  m.recipientId = Profile(Other(d)).did }
\* the session of a device is over: no channel end of the device is open
\* or closing any more, none of its handlers is running and none waits
\* behind an await (timers of handleDataExchange may be left, which send
\* into nothing)
SessionOver(d) ==
    /\ Idle
    /\ tasks[d] = <<>>
    /\ \A n \in 1..Len(pcs[d]) : pcs[d][n].chan \notin {"open", "closing"}

C16_OneRecordPerId ==
    \A d \in Devices :
        /\ \A m1 \in msgStore[d], m2 \in msgStore[d] :
              m1.id = m2.id => m1 = m2
        /\ \A j \in 1..Len(received[d]), k \in 1..Len(received[d]) :
              received[d][j].id = received[d][k].id => j = k

\* the step of App.addConnection on d that finds a record of the did and
\* builds its update: the lookup at the head of the tasks gives way to a
\* save
BuildsUpdate(d) ==
    /\ tasks[d] # <<>>
    /\ tasks[d][1].kind = "lookup"
    /\ \E r \in connStore[d] : r.did = tasks[d][1].data.did
    /\ tasks'[d] # <<>>
    /\ tasks'[d][1].kind = "save"

\* the step on d in which the save of an update returns from the store
SavesUpdate(d) ==
    /\ tasks[d] # <<>>
    /\ tasks[d][1].kind = "save"
    /\ tasks[d][1].pc = 0
    /\ tasks'[d] = <<>>
    /\ last' = Last("completeConnection", d, "ok")

\* C17: a second App.addConnection for a did, called after the first has
\* returned, builds a record with the id and the firstConnected of the
\* stored one, its connectionCount plus 1 and an expiresOn one year after
\* the clock of the call; once saved it is the one record of the did in the
\* store and in state.connections.
C17_SecondAddMerges ==
    [][\A d \in Devices :
          /\ BuildsUpdate(d) =>
                LET old == CHOOSE r \in connStore[d] :
                               r.did = tasks[d][1].data.did
                    new == tasks'[d][1].data
                IN  /\ new.id = old.id
                    /\ new.firstConnected = old.firstConnected
                    /\ new.connectionCount = old.connectionCount + 1
                    /\ new.expiresOn = AddYear(now)
          /\ SavesUpdate(d) =>
                LET new == tasks[d][1].data
                IN  /\ { r \in connStore'[d] : r.did = new.did } = {new}
                    /\ { k \in 1..Len(stateConnections'[d]) :
                             stateConnections'[d][k].did = new.did }
                       = { k \in 1..Len(stateConnections'[d]) :
                             stateConnections'[d][k] = new }
                    /\ Cardinality({ k \in 1..Len(stateConnections'[d]) :
                             stateConnections'[d][k] = new }) = 1]_vars

\* a second call, made when the clock had moved on, has been saved
C17_Witness ==
    /\ last = Last("completeConnection", AppDevice, "ok")
    /\ \E r \in connStore[AppDevice] :
          /\ r.connectionCount = 2
          /\ r.expiresOn > AddYear(r.firstConnected)
          /\ Len(stateConnections[AppDevice]) = 1
          /\ stateConnections[AppDevice][1] = r

\* the six fields updateExistingConnection merges
MergedFields ==
    {"publicKey", "firstName", "lastName", "nickname", "bio",
     "profilePicture"}

\* C18: the update App.addConnection builds for a stored record takes each
\* of publicKey, firstName, lastName, nickname, bio and profilePicture from
\* the incoming data where that has a non-empty value, and from the stored
\* record where the incoming value is empty or absent.
C18_MergePolicy ==
    [][\A d \in Devices :
          BuildsUpdate(d) =>
             LET old == CHOOSE r \in connStore[d] :
                            r.did = tasks[d][1].data.did
                 args == tasks[d][1].data
                 new == tasks'[d][1].data
             IN  \A f \in MergedFields :
                    new[f] = IF args[f] \in {"", "null"} THEN old[f]
                             ELSE args[f]]_vars

\* an update built from incoming data with empty fields for a record that
\* has these fields: publicKey kept, firstName and profilePicture replaced
C18_Witness ==
    /\ last.op = "addConnection"
    /\ tasks[AppDevice] # <<>>
    /\ tasks[AppDevice][1].kind = "save"
    /\ tasks[AppDevice][1].pc = 0
    /\ tasks[AppDevice][1].data.publicKey = "pk1"
    /\ tasks[AppDevice][1].data.firstName = "first2"
    /\ tasks[AppDevice][1].data.lastName = "last1"
    /\ tasks[AppDevice][1].data.profilePicture = "pic2"

\* C20: every record of the connection store has an expiresOn one year
\* after its lastConnected.
C20_ExpiresAYearAfterLast ==
    \A d \in Devices :
        \A r \in connStore[d] : r.expiresOn = AddYear(r.lastConnected)

\* C19: whatever calls of App.addConnection, App.removeConnection and
\* cleanupExpiredConnections have been made, and however their awaits
\* overlap, the connection store and state.connections hold at most one
\* record of a did.
C19_OneRecordPerDid ==
    \A d \in Devices :
        /\ \A r1 \in connStore[d], r2 \in connStore[d] :
              r1.did = r2.did => r1 = r2
        /\ \A j \in 1..Len(stateConnections[d]),
              k \in 1..Len(stateConnections[d]) :
              stateConnections[d][j].did = stateConnections[d][k].did
              => j = k

\* two calls of App.addConnection for one did both found no record and
\* both built a new one; the store took the first and refused the second
C19_Witness ==
    /\ last = Last("completeConnection", AppDevice, "throw")
    /\ used.fail = 0
    /\ idCtr[AppDevice] = 2
    /\ tasks[AppDevice] = <<>>
    /\ Cardinality(connStore[AppDevice]) = 1
    /\ Len(stateConnections[AppDevice]) = 1

\* C21: a message encrypted for a recipient (encryptMessage under the
\* public key of the recipient's identity, as App.createMessage does) and
\* decrypted by the recipient (decryptMessage under its private key, as
\* App.processReceivedMessages does) has its plaintext back: a received
\* message has the content of the sent message it came from.
C21_RoundTrip ==
    \A d \in Devices :
        \A m \in Range(received[d]) :
            \A s \in Outbox(Other(d), d) :
                m.id = s.id => m.content = s.content

\* the messages of d that App.createMessage has stored
Authored(d) == { m \in msgStore[d] : m \notin Range(StateMessages(d).sent) }

\* C22: App.createMessage with the relay flag set stores exactly one
\* Message with status 'sent' and then exactly one Relay with status
\* 'pending', whose messageId is the id of the message, whose
\* targetRecipientId is the did of the recipient, and whose ciphertext is
\* the ciphertext of the message, made under the public key of that
\* recipient; with the flag unset it stores the message and creates no
\* relay.
C22_MessageAndRelay ==
    [][\A d \in Devices :
          /\ msgStore'[d] # msgStore[d] /\ last'.op = "messageSaved"
             => /\ \E m \in msgStore'[d] :
                      /\ msgStore'[d] \ msgStore[d] = {m}
                      /\ m.status = "sent"
                      /\ m.id = last'.arg
                      /\ m.isRelay
                         <=> \E i \in 1..Len(tasks'[d]) :
                                /\ tasks'[d][i].kind = "relay"
                                /\ tasks'[d][i].data.messageId = m.id
                /\ relayStore'[d] = relayStore[d]
                /\ stateRelays'[d] = stateRelays[d]
          /\ relayStore'[d] # relayStore[d]
             => /\ msgStore'[d] = msgStore[d]
                /\ \E r \in relayStore'[d] :
                      /\ relayStore'[d] \ relayStore[d] = {r}
                      /\ relayStore[d] \ relayStore'[d] = {}
                      /\ r.status = "pending"
                      /\ \E m \in msgStore[d] :
                            /\ { x \in msgStore[d] : x.id = r.messageId }
                               = {m}
                            /\ m.isRelay /\ m.status = "sent"
                            /\ r.targetRecipientId = m.recipientId
                            /\ r.encryptedContent = m.encrypted
                      /\ \E e \in Devices :
                            /\ r.targetRecipientId = Profile(e).did
                            /\ r.encryptedContent.type = "aes"
                            /\ r.encryptedContent.key = Profile(e).publicKey
          /\ \A m \in Authored(d)' :
                LET rs == { r \in relayStore'[d] : r.messageId = m.id }
                IN  /\ Cardinality(rs) <= 1
                    /\ ~m.isRelay => rs = {}
                    /\ (last'.op = "relaySaved" /\ last'.arg # "throw"
                        /\ relayStore'[d] # relayStore[d]
                        /\ \E r \in relayStore'[d] :
                              r.id = last'.arg /\ r.messageId = m.id)
                       => Cardinality(rs) = 1]_vars

\* App.createMessage has returned for a relayed message: its relay has
\* just been stored and pushed to state.messages.relays
C22_Witness ==
    /\ last.op = "relaySaved"
    /\ \E r \in relayStore[AppDevice] :
          /\ r.id = last.arg
          /\ r \in Range(stateRelays[AppDevice])
          /\ \E m \in Authored(AppDevice) : m.id = r.messageId /\ m.isRelay

\* C23: once a session of d with the peer whose did is X is over, a relay
\* for X that was forwarded in it (the peer has received and acknowledged
\* it) is no longer held by d, neither in the relay store nor in
\* state.messages.relays.
C23_RelayDeleted ==
    \A d \in Devices :
        SessionOver(d) =>
            \A r \in inbound[Other(d)] :
                r.targetRecipientId = Profile(Other(d)).did
                => /\ \A x \in relayStore[d] : x.id # r.id
                   /\ \A x \in Range(stateRelays[d]) : x.id # r.id

\* C24: a session of d with a peer leaves every relay of d for another did
\* as it is, in the relay store and in state.messages.relays, and hands
\* none of them to the peer: every relay the peer receives is one for the
\* did of the peer.
C24_OtherRelaysUntouched ==
    \A d \in Devices :
        /\ \A r \in Range(StateMessages(d).relays) :
              r.targetRecipientId # Profile(Other(d)).did
              => r \in relayStore[d] /\ r \in Range(stateRelays[d])
        /\ \A r \in inbound[Other(d)] :
              r.targetRecipientId = Profile(Other(d)).did

\* C25: once App.init has finished, state.connections holds no connection
\* whose expiresOn is in the past.
C25_NoneExpiredAfterInit ==
    \A d \in Devices :
        (last = Last("appInit", d, "none") /\ Idle)
        => \A k \in 1..Len(stateConnections[d]) :
              ~(stateConnections[d][k].expiresOn < now)

\* C28: nothing a device transmits holds the private key of its identity:
\* not the offer or answer payload it displays, not the onboarding URL it
\* makes, not a message of handleDataExchange (profile, connections,
\* messages, relays, complete), not an acknowledgement, and no message in
\* flight on a data channel.
C28_PrivateKeyStaysLocal ==
    LET Texts ==
            {"did", "publicKey", "pubKey", "firstName", "lastName",
             "nickname", "bio", "name", "referrer", "profilePicture"}
        Exposes(rec) ==
            \/ "privateKey" \in DOMAIN rec
            \/ \E f \in DOMAIN rec \cap Texts :
                  \E e \in Devices : rec[f] = Profile(e).privateKey
        Leaks(msg) ==
            \/ Exposes(msg)
            \/ Exposes(msg.profile)
            \/ \E it \in msg.items : Exposes(it)
    IN  \A d \in Devices :
            /\ ~Exposes(qrcode[d])
            /\ ~Exposes(answerQrCode[d])
            /\ ~Exposes(createOnboardingQRData(Profile(d)))
            /\ \A k \in 1..5 :
                  /\ ~Leaks(ExchangeMessage(d, k))
                  /\ ExchangeMessage(d, k).type \in Acked
                     => ~Leaks(Ack(ExchangeMessage(d, k)))
            /\ \A n \in 1..Len(pcs[d]) :
                  \A k \in 1..Len(pcs[d][n].inbox) : ~Leaks(pcs[d][n].inbox[k])

\* an offer and the answer to it are displayed, the channel is open and a
\* profile message has been received
C28_Witness ==
    \E d \in Devices :
        /\ qrcode[d] # NULL
        /\ answerQrCode[Other(d)] # NULL
        /\ last.op = "received" /\ last.dev = d /\ last.arg = "profile"
        /\ connectionData[d] # NULL
        /\ connectionData[d].firstName = Profile(Other(d)).firstName

\* C27: a step that deletes a connection, in the cleanup pass or in
\* App.removeConnection, leaves the message store, the relay store and the
\* lists of state.messages as they are, the pending relays for the did of
\* the deleted connection included.
C27_DeleteKeepsMessages ==
    [][\A d \in Devices :
          (\E c \in connStore[d] : \A x \in connStore'[d] : x.id # c.id)
          => /\ msgStore' = msgStore
             /\ relayStore' = relayStore
             /\ stateRelays' = stateRelays
             /\ sent' = sent
             /\ received' = received]_vars

\* the connection with the peer has been deleted by the cleanup pass, and
\* the relay of a message written for it is still pending
C27_Witness ==
    /\ last.op = "removeConnection"
    /\ used.tick = 1
    /\ connStore[AppDevice] = {}
    /\ stateConnections[AppDevice] = <<>>
    /\ \E r \in relayStore[AppDevice] :
          /\ r \notin Range(StateMessages(AppDevice).relays)
          /\ r \in Range(stateRelays[AppDevice])
          /\ r.targetRecipientId = Profile(Other(AppDevice)).did
          /\ r.status = "pending"

C30_LengthChecked ==
    [][\A d \in Devices :
          /\ (used'.user # used.user
              /\ last'.op \in {"messageSend", "messageSendRejected"}
              /\ last'.dev = d
              /\ \/ last'.arg.recipientId = 0
                 \/ Trim(last'.arg.content) = ""
                 \/ Len(Trim(last'.arg.content)) > MaxLength)
             => /\ last'.op = "messageSendRejected"
                /\ tasks' = tasks
                /\ msgStore' = msgStore
                /\ relayStore' = relayStore
                /\ sent' = sent /\ stateRelays' = stateRelays
          /\ \A i \in 1..Len(tasks'[d]) :
                tasks'[d][i].kind = "recipient"
                => /\ tasks'[d][i].data.content # ""
                   /\ Len(tasks'[d][i].data.content) <= MaxLength
          /\ \A m \in msgStore'[d] :
                m.content # NULL
                => /\ m.content.body # ""
                   /\ Len(m.content.body) <= MaxLength]_vars

\* a form whose content is one character too long has just been rejected,
\* and a message of the greatest length is stored
C30_Witness ==
    /\ last.op = "messageSendRejected"
    /\ last.arg.recipientId # 0
    /\ Len(Trim(last.arg.content)) = MaxLength + 1
    /\ tasks[AppDevice] = <<>>
    /\ \E m \in Authored(AppDevice) : Len(m.content.body) = MaxLength

\* C26: getConnectionsNearExpiration(withinDays), called at the time now,
\* resolves with exactly the connections whose expiresOn lies after now and
\* before now plus withinDays days; none of them is expired, and none of
\* them is among the connections getExpiredConnections returns.
C26_NearExpirationExact ==
    [][\A d \in Devices :
          (/\ Len(tasks'[d]) < Len(tasks[d])
           /\ last'.op = "nearExpiration" /\ last'.dev = d)
          => /\ last'.arg.result =
                   { c \in connStore[d] :
                       /\ now < c.expiresOn
                       /\ c.expiresOn < now + last'.arg.withinDays * Day }
             /\ \A c \in last'.arg.result :
                   /\ ~(c.expiresOn < now)
                   /\ c.id \notin
                         Range(getExpiredConnections(connStore[d], now))
                   /\ c.id \notin
                         Range(getExpiredConnections(connStore[d], now'))]_vars

\* C31: importIdentity(exportIdentity(identity, p), p) is the identity, for
\* the identity of the installation and for one another installation
\* exported, under each passphrase; an App.importIdentity that is given
\* such an export and its passphrase goes on with that identity, builds
\* from the profile DB.getProfile returned a profile that differs from it
\* in the identity and in updated only (same id, names, bio, picture and
\* created), and after the save that profile is the record of its id in
\* the store and state.profile, and its identity is state.identity.
C31_ExportImport ==
    /\ [](\A identity \in {stateIdentity[AppDevice],
                           createIdentity("uuid-x", 0)},
             p \in {"CurrentCircle", "secret"} :
             importIdentity(exportIdentity(identity, p), p) = identity)
    /\ [][LET d == AppDevice
              n == Len(tasks'[d])
          IN  /\ used'.user # used.user /\ last'.op = "importIdentity"
                 => \A identity \in {stateIdentity[d],
                                     createIdentity("uuid-x", 0)} :
                       last'.arg.encryptedIdentity =
                           exportIdentity(identity, last'.arg.password)
                       => /\ n = Len(tasks[d]) + 1
                          /\ tasks'[d][n] =
                                Task("import", 0, [identity |-> identity])
              /\ \A i \in 1..Len(tasks[d]) :
                    /\ tasks[d][i].kind = "import"
                    /\ n = Len(tasks[d])
                    /\ tasks'[d][n].kind = "imported"
                    /\ SubSeq(tasks'[d], 1, n - 1) = RemoveAt(tasks[d], i)
                    => LET t == tasks'[d][n].data
                       IN  /\ t.identity = tasks[d][i].data.identity
                           /\ t.profile.identity = t.identity
                           /\ profileStore[d] # {}
                              => \E r \in profileStore[d] :
                                    t.profile =
                                       [r EXCEPT
                                          !.identity = t.identity,
                                          !.updated = t.profile.updated]
              /\ \A i \in 1..Len(tasks[d]) :
                    /\ tasks[d][i].kind = "imported"
                    /\ tasks'[d] = RemoveAt(tasks[d], i)
                    /\ profileVars' # profileVars
                    => LET t == tasks[d][i].data
                       IN  /\ stateIdentity'[d] = t.identity
                           /\ stateProfile'[d] = t.profile
                           /\ { r \in profileStore'[d] :
                                  r.id = t.profile.id } = {t.profile}
                           /\ { r \in profileStore'[d] :
                                  r.id # t.profile.id } =
                              { r \in profileStore[d] :
                                  r.id # t.profile.id }]_vars

\* the identity another installation exported under a passphrase of the
\* user's has been imported under it into the profile of Alice, which
\* kept its id and names
C31_Witness ==
    /\ last.op = "importIdentity"
    /\ last.arg.password = "secret"
    /\ stateIdentity[AppDevice] = createIdentity("uuid-x", 0)
    /\ stateProfile[AppDevice].identity = createIdentity("uuid-x", 0)
    /\ stateProfile[AppDevice].id = Profile(AppDevice).id
    /\ stateProfile[AppDevice].firstName = Profile(AppDevice).firstName
    /\ profileStore[AppDevice] = {stateProfile[AppDevice]}

\* C32: Crypto.importIdentity gives null for an export and a passphrase
\* other than the one of the export; an App.importIdentity that is given
\* them throws 'Invalid identity or password' before it awaits anything:
\* it leaves no continuation, and the profile store, state.profile and
\* state.identity are as before.
C32_WrongPassphrase ==
    /\ [](\A identity \in {stateIdentity[AppDevice],
                           createIdentity("uuid-x", 0)},
             p \in {"CurrentCircle", "secret"},
             q \in {"CurrentCircle", "secret"} :
             p # q => importIdentity(exportIdentity(identity, p), q) = NULL)
    /\ [][/\ used'.user # used.user
          /\ last'.op \in {"importIdentity", "importIdentityThrow"}
          /\ last'.arg.encryptedIdentity.type = "aes"
          /\ last'.arg.encryptedIdentity.key #
                exportIdentity(NULL, last'.arg.password).key
          => /\ last'.op = "importIdentityThrow"
             /\ tasks' = tasks
             /\ profileVars' = profileVars]_vars

\* the export of the identity of another installation, made under a
\* passphrase of the user's, has just been refused under the passphrase
\* the import dialog uses, on an installation that has a profile
C32_Witness ==
    /\ last.op = "importIdentityThrow"
    /\ last.arg.encryptedIdentity =
          exportIdentity(createIdentity("uuid-x", 0), "secret")
    /\ last.arg.password = "CurrentCircle"
    /\ stateProfile[AppDevice] # NULL
    /\ stateIdentity[AppDevice] = stateProfile[AppDevice].identity
    /\ profileStore[AppDevice] = {stateProfile[AppDevice]}

\* C33: the profile store never holds two records, and when no call of
\* App.createProfile, App.updateProfile or App.importIdentity is pending
\* and one of them has set state.profile, the store holds that profile and
\* nothing else, so that DB.getProfile returns it.
C33_OneProfile ==
    \A d \in Devices :
        /\ Cardinality(profileStore[d]) <= 1
        /\ tasks[d] = <<>> /\ stateProfile[d] # NULL
           => getProfile(profileStore[d]) = {stateProfile[d]}

\* C39: the profile App.updateProfile saves differs from the state.profile
\* it read in firstName, lastName, nickname, bio, profilePicture and
\* updated at most: same id, created and identity; and state.identity
\* changes only in the step that completes an App.createProfile or an
\* App.importIdentity, never in a step of App.updateProfile.
C39_UpdateKeepsIdentity ==
    [][LET d == AppDevice
           n == Len(tasks'[d])
       IN  /\ used'.user # used.user /\ last'.op = "updateProfile"
              /\ stateProfile[d] # NULL
              => /\ n = Len(tasks[d]) + 1
                 /\ tasks'[d][n].kind = "updated"
                 /\ tasks'[d][n].data.profile.id = stateProfile[d].id
                 /\ tasks'[d][n].data.profile.created =
                       stateProfile[d].created
                 /\ tasks'[d][n].data.profile.identity =
                       stateProfile[d].identity
                 /\ profileVars' = profileVars
           /\ \A i \in 1..Len(tasks[d]) :
                 /\ tasks[d][i].kind = "updated"
                 /\ tasks'[d] = RemoveAt(tasks[d], i)
                 /\ profileVars' # profileVars
                 => /\ stateProfile'[d] = tasks[d][i].data.profile
                    /\ tasks[d][i].data.profile \in profileStore'[d]
                    /\ stateIdentity'[d] = stateIdentity[d]
           /\ stateIdentity'[d] # stateIdentity[d]
              => \E i \in 1..Len(tasks[d]) :
                    /\ tasks[d][i].kind \in {"created", "imported"}
                    /\ tasks'[d] = RemoveAt(tasks[d], i)
                    /\ stateIdentity'[d] = tasks[d][i].data.identity]_vars

\* the profile of Alice has been edited after the clock went on: the names
\* and updated are new, the id, created and the identity are those of the
\* start
C39_Witness ==
    /\ last.op = "updateProfile"
    /\ tasks[AppDevice] = <<>>
    /\ stateProfile[AppDevice] # NULL
    /\ stateProfile[AppDevice].firstName = "Eve"
    /\ stateProfile[AppDevice].updated > 0
    /\ stateProfile[AppDevice].id = Profile(AppDevice).id
    /\ stateProfile[AppDevice].created = 0
    /\ stateProfile[AppDevice].identity.did = Profile(AppDevice).did
    /\ stateIdentity[AppDevice] = stateProfile[AppDevice].identity
    /\ profileStore[AppDevice] = {stateProfile[AppDevice]}

\* C34: when processScannedCode is given a code that is not JSON and not
\* an onboarding URL, or JSON of a type other than connection and
\* connection_answer, it starts nothing (no continuation, no peer
\* connection), leaves connectionData, remoteDescription and the transport
\* as they are, and does not put a stage that was not FAILED to FAILED.
C34_BadCodeRecoverable ==
    [][\A d \in Devices :
          /\ scannerActive[d] /\ ~scannerActive'[d]
          /\ last'.op = "scan" /\ last'.dev = d
          /\ last'.arg.type \in {"garbage", "unsupported"}
          => /\ tasks' = tasks
             /\ sync' = sync
             /\ connectionData' = connectionData
             /\ remoteDescription' = remoteDescription
             /\ rtcVars' = rtcVars /\ pcs' = pcs
             /\ connectionStage'[d] = STAGES.FAILED
                => connectionStage[d] = STAGES.FAILED]_vars

\* C35: a step of handleDataReceived for a profile, connections, messages
\* or relays message hands exactly one message to WebRTC.sendData, of the
\* type of the inbound message followed by _ack, with the number of items
\* of a connections, messages or relays message as its count, and the
\* channel takes it; a step for any other message, an acknowledgement or
\* complete, hands nothing to WebRTC.sendData.
C35_OneAck ==
    [][\A d \in Devices : \A n \in 1..Len(pcs[d]) :
          /\ pcs[d][n].inbox # << >>
          /\ Len(pcs'[d]) = Len(pcs[d])
          /\ pcs'[d][n].inbox = Tail(pcs[d][n].inbox)
          /\ pcs[d][n].chan = "open" /\ pcs'[d][n].chan = "open"
          => LET msg == Head(pcs[d][n].inbox)
             IN  /\ last'.op = "received" /\ last'.dev = d
                 /\ last'.arg = msg.type
                 /\ IF msg.type \in
                       {"profile", "connections", "messages", "relays"}
                    THEN /\ Len(last'.acks) = 1
                         /\ last'.acks[1].msg.type = msg.type \o "_ack"
                         /\ last'.acks[1].ok
                         /\ msg.type # "profile"
                            => last'.acks[1].msg.count = msg.count
                    ELSE last'.acks = << >>]_vars

\* the device has answered the connections message of the peer, which has
\* one item, with a connections_ack of count 1 that the channel took
C35_Witness ==
    /\ last.op = "received"
    /\ last.arg = "connections"
    /\ last.acks = << [msg |-> Message("connections_ack", NULL, {}, 1),
                      ok |-> TRUE] >>

\* C36: on a device no run of handleDataExchange starts while an earlier
\* run of the session is between two of its sends.
C36_ExchangeOnce ==
    [][\A d \in Devices :
          Len(runs'[d]) > Len(runs[d]) => runs[d] = << >>]_vars

\* C37: in the one session of a device whose store was empty,
\* App.addConnection is called (a `complete` is received with
\* connectionData at hand) only when no call of it is pending and the store
\* holds no connection for the did: no second commit for the peer is
\* started, and no connection has a connectionCount above 1.
C37_CommitOnce ==
    [][\A d \in Devices :
          LET n == Len(tasks'[d])
          IN  /\ n = Len(tasks[d]) + 1
              /\ tasks'[d][n].kind = "lookup"
              => /\ \A i \in 1..Len(tasks[d]) :
                       tasks[d][i].kind \notin {"lookup", "save"}
                 /\ \A c \in connStore[d] : c.did # tasks'[d][n].data.did]_vars

\* C38: a run of handleDataExchange whose send WebRTC.sendData drops (the
\* channel is not open, sendData returns false) ends there: it sets no
\* timer for a later send, so that the run does not go on to `complete`.
C38_NoCompleteAfterDrop ==
    [][\A d \in Devices :
          /\ ~sendDataOk(pcs, d, dataChannel[d])
          /\ dataChannel'[d] = dataChannel[d]
          => /\ Running(d, "exchange") /\ sync' = NoSync
                => runs'[d] = runs[d]
             /\ runs[d] # << >> /\ used'.timer = used.timer + 1
                /\ runs'[d] # runs[d]
                => runs'[d] = Tail(runs[d])]_vars

====
